---- MODULE Spec2Model ----
(***************************************************************************)
(* Token resolution engine of DSCP (packages/token-resolver, packages/types)*)
(* as a state machine: a TokenResolver object (its two indexes), the calls  *)
(* made on it, and the result of the last call.  Token objects live in a    *)
(* heap and the indexes hold references, as in the source.                  *)
(*                                                                          *)
(* JavaScript strings are sequences of atoms; the atom ":" is the alias     *)
(* separator, so that isAlias / parseAlias are computed on the text as      *)
(* String.includes / String.split compute them.                             *)
(***************************************************************************)
EXTENDS Integers, Sequences, FiniteSets, TLC

VARIABLES
    heap,                 \* the ResolvedToken objects, by reference (index)
    nInput,               \* heap[1..nInput] is the ResolvedToken[] given to the constructor
    tokens,               \* TokenResolver.tokens: Map<path, reference>
    tokensByCollection,   \* TokenResolver.tokensByCollection: Map<collection, Map<path, reference>>
    nUpdates,             \* number of update() calls made so far
    res,                  \* the last call and what it returned
    branches,             \* LocalFileProvider.branches: Map<name, Branch>
    pullRequests,         \* LocalFileProvider.pullRequests: Map<id, PullRequest>
    prCounter,            \* LocalFileProvider.prCounter
    files,                \* the tokens file of each branch directory: Map<branch, document>
    inflight,             \* the API requests being handled, each with its position
    store,                \* the web client's useAppStore state
    pending,              \* the web client's mutations awaiting their response
    sent                  \* the token updates the web client has sent

\* The git provider and the requests it is serving
provider == <<branches, pullRequests, prCounter, files, inflight>>

\* The web client
web == <<store, pending, sent>>

vars == <<heap, nInput, tokens, tokensByCollection, nUpdates, res, provider, web>>

(***************************************************************************)
(* Bounds                                                                  *)
(***************************************************************************)
MaxTokens == 3      \* longest token list given to the constructor
MaxUpdates == 1     \* update() calls in one behaviour
MaxDepth == 8       \* recursion budget of one resolution (never reached by the code)

(***************************************************************************)
(* JavaScript values: undefined, null, a string, a number                  *)
(***************************************************************************)
Undef == [t |-> "undef", s |-> <<>>, n |-> 0]
Null == [t |-> "null", s |-> <<>>, n |-> 0]
Str(x) == [t |-> "str", s |-> x, n |-> 0]
Num(k) == [t |-> "num", s |-> <<>>, n |-> k]

\* JavaScript truthiness of a value (undefined, "" and 0 are falsy)
Truthy(v) ==
    \/ v.t = "str" /\ v.s # <<>>
    \/ v.t = "num" /\ v.n # 0

\* String.prototype.split(':') : the pieces between the separators
RECURSIVE SplitFrom(_, _, _)
SplitFrom(s, i, cur) ==
    IF i > Len(s) THEN <<cur>>
    ELSE IF s[i] = ":" THEN <<cur>> \o SplitFrom(s, i + 1, <<>>)
    ELSE SplitFrom(s, i + 1, Append(cur, s[i]))

Split(s) == SplitFrom(s, 1, <<>>)

\* isAlias: typeof value === 'string' && value.includes(':')
isAlias(v) == v.t = "str" /\ \E i \in 1..Len(v.s) : v.s[i] = ":"

\* parseAlias: null unless isAlias; else the first two pieces of split(':')
parseAlias(v) ==
    IF ~isAlias(v) THEN [ok |-> FALSE, collection |-> <<>>, path |-> <<>>]
    ELSE LET parts == Split(v.s)
         IN [ok |-> TRUE, collection |-> parts[1], path |-> parts[2]]

(***************************************************************************)
(* JavaScript Map: keys in insertion order and the value of each key       *)
(***************************************************************************)
EmptyMap == [keys |-> <<>>, val |-> <<>>]

MapIndex(m, k) == IF \E i \in 1..Len(m.keys) : m.keys[i] = k
                  THEN CHOOSE i \in 1..Len(m.keys) : m.keys[i] = k
                  ELSE 0

MapHas(m, k) == MapIndex(m, k) # 0

MapGet(m, k) == m.val[MapIndex(m, k)]

MapSet(m, k, v) ==
    IF MapHas(m, k)
    THEN [m EXCEPT !.val[MapIndex(m, k)] = v]
    ELSE [keys |-> Append(m.keys, k), val |-> Append(m.val, v)]

MapValues(m) == m.val

(***************************************************************************)
(* ResolvedToken and TokenParser.createToken                               *)
(***************************************************************************)
NoValues == [present |-> FALSE, light |-> Undef, dark |-> Undef]
NoBrandValues == [present |-> FALSE, acpd |-> Undef, eeaa |-> Undef]

\* String.prototype.toLowerCase / toUpperCase on the atoms that occur
Lower(a) ==
    CASE a = "Global" -> "global" [] a = "Brand" -> "brand" [] a = "Core" -> "core"
      [] a = "ACPD" -> "acpd" [] a = "EEAA" -> "eeaa" [] OTHER -> a

Upper(a) ==
    CASE a = "acpd" -> "ACPD" [] a = "eeaa" -> "EEAA" [] OTHER -> a

\* TokenParser.getTier
getTier(collectionName) ==
    LET name == [i \in 1..Len(collectionName) |-> Lower(collectionName[i])]
    IN IF name = <<"global">> THEN "global"
       ELSE IF name = <<"brand">> THEN "brand"
       ELSE "component"

\* TokenParser.isBrandMode
isBrandMode(modes) ==
    \E i \in 1..Len(modes) : Upper(modes[i]) = "ACPD" \/ Upper(modes[i]) = "EEAA"

\* TokenParser.mapType
mapType(type) ==
    CASE Lower(type) = "color" -> "COLOR"
      [] Lower(type) \in {"number", "float"} -> "FLOAT"
      [] OTHER -> "STRING"

\* variable.values[key]: undefined when the key is missing
ValueOf(variable, key) ==
    IF key \in DOMAIN variable.values THEN variable.values[key] ELSE Undef

\* JavaScript Array.join('/') of the path segments (each segment a string)
RECURSIVE JoinPath(_)
JoinPath(parts) ==
    IF Len(parts) = 0 THEN <<>>
    ELSE IF Len(parts) = 1 THEN parts[1]
    ELSE parts[1] \o <<"/">> \o JoinPath(Tail(parts))

\* toLowerCase of a string
LowerString(s) == [i \in 1..Len(s) |-> Lower(s[i])]

\* createToken choosing the value field by the tier instead of the mode list
createTokenByTier(pathParts, variable, collectionName, tier, modes) ==
    LET path == JoinPath(pathParts)
        first == IF Len(pathParts) > 0 THEN LowerString(pathParts[1]) ELSE <<>>
        brand == IF tier # "global" /\ first \in {<<"acpd">>, <<"eeaa">>}
                 THEN first[1] ELSE "null"
        base == [id |-> collectionName \o <<":">> \o path,
                 path |-> path,
                 collection |-> collectionName,
                 tier |-> tier,
                 type |-> mapType(variable.type),
                 brand |-> brand,
                 value |-> Undef,
                 values |-> NoValues,
                 brandValues |-> NoBrandValues]
    IN IF tier = "global"
       THEN [base EXCEPT !.value = ValueOf(variable, "Default")]
       ELSE IF tier = "component"
       THEN [base EXCEPT !.brandValues = [present |-> TRUE,
                                          acpd |-> ValueOf(variable, "ACPD"),
                                          eeaa |-> ValueOf(variable, "EEAA")]]
       ELSE [base EXCEPT !.values = [present |-> TRUE,
                                     light |-> ValueOf(variable, "Light"),
                                     dark |-> ValueOf(variable, "Dark")]]

\* TokenParser.createToken
createToken(pathParts, variable, collectionName, tier, modes) ==
    LET path == JoinPath(pathParts)
        first == IF Len(pathParts) > 0 THEN LowerString(pathParts[1]) ELSE <<>>
        brand == IF tier # "global" /\ first \in {<<"acpd">>, <<"eeaa">>}
                 THEN first[1] ELSE "null"
        base == [id |-> collectionName \o <<":">> \o path,
                 path |-> path,
                 collection |-> collectionName,
                 tier |-> tier,
                 type |-> mapType(variable.type),
                 brand |-> brand,
                 value |-> Undef,
                 values |-> NoValues,
                 brandValues |-> NoBrandValues]
    IN IF Len(modes) = 1 /\ modes[1] = "Default"
       THEN [base EXCEPT !.value = ValueOf(variable, "Default")]
       ELSE IF isBrandMode(modes)
       THEN [base EXCEPT !.brandValues = [present |-> TRUE,
                                          acpd |-> ValueOf(variable, "ACPD"),
                                          eeaa |-> ValueOf(variable, "EEAA")]]
       ELSE [base EXCEPT !.values = [present |-> TRUE,
                                     light |-> ValueOf(variable, "Light"),
                                     dark |-> ValueOf(variable, "Dark")]]

(***************************************************************************)
(* TokenResolver.  A resolver R is [tokens, tokensByCollection]; h is the   *)
(* heap its references point into.                                          *)
(***************************************************************************)
\* The constructor's loop over the tokens h[1..n]
RECURSIVE IndexByCollection(_, _, _)
IndexByCollection(h, n, i) ==
    IF i = 0 THEN EmptyMap
    ELSE LET prev == IndexByCollection(h, n, i - 1)
             c == h[i].collection
             inner == IF MapHas(prev, c) THEN MapGet(prev, c) ELSE EmptyMap
         IN MapSet(prev, c, MapSet(inner, h[i].path, i))

\* new Map(tokens.map((t) => [t.path, t])): a later token replaces an earlier one
RECURSIVE IndexByPath(_, _)
IndexByPath(h, i) ==
    IF i = 0 THEN EmptyMap
    ELSE MapSet(IndexByPath(h, i - 1), h[i].path, i)

\* TokenResolver.constructor
constructor(h, n) ==
    [tokens |-> IndexByPath(h, n),
     tokensByCollection |-> IndexByCollection(h, n, n)]

\* token.tier === 'global' ? token.value : token.values?.[mode]
SlotValue(token, mode) ==
    IF token.tier = "global" THEN token.value
    ELSE IF ~token.values.present THEN Undef
    ELSE IF mode = "light" THEN token.values.light
    ELSE token.values.dark

Diverged == [t |-> "diverged", s |-> <<>>, n |-> 0]

\* this.tokensByCollection.get(collection)?.get(path): 0 when there is none
Referenced(R, parsed) ==
    IF ~MapHas(R.tokensByCollection, parsed.collection) THEN 0
    ELSE LET collectionTokens == MapGet(R.tokensByCollection, parsed.collection)
         IN IF MapHas(collectionTokens, parsed.path)
            THEN MapGet(collectionTokens, parsed.path)
            ELSE 0

\* resolveToken without the visited.add(token.id) of line 91
RECURSIVE resolveTokenNoAdd(_, _, _, _, _, _)
resolveTokenNoAdd(h, R, ref, mode, visited, depth) ==
    IF depth = 0 THEN [result |-> Diverged, calls |-> 0]
    ELSE IF h[ref].id \in visited THEN [result |-> Null, calls |-> 1]
    ELSE LET value == SlotValue(h[ref], mode)
         IN IF value = Undef THEN [result |-> Null, calls |-> 1]
            ELSE IF isAlias(value)
            THEN LET parsed == parseAlias(value)
                     referencedToken == Referenced(R, parsed)
                 IN IF ~parsed.ok \/ referencedToken = 0
                    THEN [result |-> Null, calls |-> 1]
                    ELSE LET r == resolveTokenNoAdd(h, R, referencedToken, mode,
                                                    visited, depth - 1)
                         IN [result |-> r.result, calls |-> r.calls + 1]
            ELSE [result |-> value, calls |-> 1]

\* TokenResolver.resolveToken; calls counts its invocations, depth is the
\* recursion budget (Diverged when it runs out)
RECURSIVE resolveToken(_, _, _, _, _, _)
resolveToken(h, R, ref, mode, visited, depth) ==
    IF depth = 0 THEN [result |-> Diverged, calls |-> 0]
    ELSE IF h[ref].id \in visited THEN [result |-> Null, calls |-> 1]
    ELSE LET value == SlotValue(h[ref], mode)
         IN IF value = Undef THEN [result |-> Null, calls |-> 1]
            ELSE IF isAlias(value)
            THEN LET parsed == parseAlias(value)
                     referencedToken == Referenced(R, parsed)
                 IN IF ~parsed.ok \/ referencedToken = 0
                    THEN [result |-> Null, calls |-> 1]
                    ELSE LET r == resolveToken(h, R, referencedToken, mode,
                                               visited \cup {h[ref].id}, depth - 1)
                         IN [result |-> r.result, calls |-> r.calls + 1]
            ELSE [result |-> value, calls |-> 1]

\* The ids that resolveToken adds to its visited set from token ref on
RECURSIVE VisitedBy(_, _, _, _, _, _)
VisitedBy(h, R, ref, mode, visited, depth) ==
    IF depth = 0 \/ h[ref].id \in visited THEN visited
    ELSE LET value == SlotValue(h[ref], mode)
             parsed == parseAlias(value)
             referencedToken == Referenced(R, parsed)
         IN IF value # Undef /\ isAlias(value) /\ referencedToken # 0
            THEN VisitedBy(h, R, referencedToken, mode, visited \cup {h[ref].id}, depth - 1)
            ELSE visited \cup {h[ref].id}

\* resolve with one visited set kept by the resolver across calls instead of
\* a new Set() per top-level call: it still holds the ids of the previous resolution
resolveSharedVisited(h, R, path, mode) ==
    LET previous ==
            IF res.op = "resolve" /\ MapHas(R.tokens, res.path)
            THEN LET first == SlotValue(h[MapGet(R.tokens, res.path)], res.mode)
                     target == Referenced(R, parseAlias(first))
                 IN IF first # Undef /\ isAlias(first) /\ target # 0
                    THEN VisitedBy(h, R, target, res.mode, {}, MaxDepth)
                    ELSE {}
            ELSE {}
    IN IF ~MapHas(R.tokens, path) THEN [result |-> Null, calls |-> 0]
       ELSE LET token == h[MapGet(R.tokens, path)]
                value == SlotValue(token, mode)
            IN IF value = Undef THEN [result |-> Null, calls |-> 0]
               ELSE IF isAlias(value)
               THEN LET parsed == parseAlias(value)
                        referencedToken == Referenced(R, parsed)
                    IN IF ~parsed.ok \/ referencedToken = 0
                       THEN [result |-> Null, calls |-> 0]
                       ELSE resolveToken(h, R, referencedToken, mode, previous, MaxDepth)
               ELSE [result |-> value, calls |-> 0]

\* TokenResolver.resolve
resolve(h, R, path, mode) ==
    IF ~MapHas(R.tokens, path) THEN [result |-> Null, calls |-> 0]
    ELSE LET token == h[MapGet(R.tokens, path)]
             value == SlotValue(token, mode)
         IN IF value = Undef THEN [result |-> Null, calls |-> 0]
            ELSE IF isAlias(value)
            THEN LET parsed == parseAlias(value)
                     referencedToken == Referenced(R, parsed)
                 IN IF ~parsed.ok \/ referencedToken = 0
                    THEN [result |-> Null, calls |-> 0]
                    ELSE resolveToken(h, R, referencedToken, mode, {}, MaxDepth)
            ELSE [result |-> value, calls |-> 0]

\* TokenResolver.get: the reference held for path, 0 for undefined
get(R, path) == IF MapHas(R.tokens, path) THEN MapGet(R.tokens, path) ELSE 0

\* TokenResolver.getAll
getAll(R) == MapValues(R.tokens)

\* TokenResolver.resolveAll: the (path, resolved value) entries, in map order
RECURSIVE resolveAllFrom(_, _, _, _, _, _)
resolveAllFrom(h, R, brand, mode, i, acc) ==
    IF i > Len(R.tokens.val) THEN acc
    ELSE LET token == h[R.tokens.val[i]]
         IN resolveAllFrom(h, R, brand, mode, i + 1,
                IF token.tier = "global" \/ token.brand = brand
                THEN MapSet(acc, token.path, resolve(h, R, token.path, mode).result)
                ELSE acc)

resolveAll(h, R, brand, mode) == resolveAllFrom(h, R, brand, mode, 1, EmptyMap)

\* TokenResolver.hasCircularRef
RECURSIVE hasCircularRef(_, _, _, _, _)
hasCircularRef(h, R, ref, mode, visited) ==
    IF h[ref].id \in visited THEN TRUE
    ELSE LET value == SlotValue(h[ref], mode)
         IN IF Truthy(value) /\ isAlias(value)
            THEN LET parsed == parseAlias(value)
                     referencedToken == Referenced(R, parsed)
                 IN IF ~parsed.ok \/ referencedToken = 0 THEN FALSE
                    ELSE hasCircularRef(h, R, referencedToken, mode,
                                        visited \cup {h[ref].id})
            ELSE FALSE

\* A TokenValidationError; mode and value are what its message text carries
ValidationError(path, type, mode, value) ==
    [path |-> path, type |-> type, mode |-> mode, value |-> value]

\* TokenResolver.checkCircularReferences
checkCircularReferences(h, R, ref) ==
    LET modes == IF h[ref].tier = "global" THEN <<"light">> ELSE <<"light", "dark">>
        errorOf(mode) ==
            IF hasCircularRef(h, R, ref, mode, {})
            THEN <<ValidationError(h[ref].path, "circular_reference", mode, Undef)>>
            ELSE <<>>
    IN IF Len(modes) = 1 THEN errorOf(modes[1])
       ELSE errorOf(modes[1]) \o errorOf(modes[2])

\* checkValue of TokenResolver.checkMissingReferences
checkValue(R, path, value, mode) ==
    IF Truthy(value) /\ isAlias(value)
    THEN LET parsed == parseAlias(value)
         IN IF ~parsed.ok
            THEN <<ValidationError(path, "invalid_value", "none", value)>>
            ELSE IF Referenced(R, parsed) = 0
            THEN <<ValidationError(path, "missing_reference", mode, value)>>
            ELSE <<>>
    ELSE <<>>

\* TokenResolver.checkMissingReferences
checkMissingReferences(h, R, ref) ==
    IF h[ref].tier = "global"
    THEN checkValue(R, h[ref].path, h[ref].value, "none")
    ELSE checkValue(R, h[ref].path,
                    IF h[ref].values.present THEN h[ref].values.light ELSE Undef, "light")
         \o checkValue(R, h[ref].path,
                       IF h[ref].values.present THEN h[ref].values.dark ELSE Undef, "dark")

\* The loop of TokenResolver.validate over this.tokens.values()
RECURSIVE validateFrom(_, _, _)
validateFrom(h, R, i) ==
    IF i > Len(R.tokens.val) THEN <<>>
    ELSE checkCircularReferences(h, R, R.tokens.val[i])
         \o checkMissingReferences(h, R, R.tokens.val[i])
         \o validateFrom(h, R, i + 1)

\* TokenResolver.validate
validate(h, R) ==
    LET errors == validateFrom(h, R, 1)
    IN [valid |-> Len(errors) = 0, errors |-> errors]

\* update writing into the stored token instead of into a copy of it
updateInPlace(h, R, path, value, mode) ==
    IF ~MapHas(R.tokens, path) THEN [heap |-> h, R |-> R, result |-> 0]
    ELSE LET ref == MapGet(R.tokens, path)
             token == h[ref]
             updated ==
                 IF token.tier = "global" THEN [token EXCEPT !.value = value]
                 ELSE IF mode = "light"
                 THEN [token EXCEPT !.values = [present |-> TRUE, light |-> value,
                                                dark |-> token.values.dark]]
                 ELSE IF mode = "dark"
                 THEN [token EXCEPT !.values = [present |-> TRUE, light |-> token.values.light,
                                                dark |-> value]]
                 ELSE token
         IN [heap |-> [h EXCEPT ![ref] = updated], R |-> R, result |-> ref]

\* update building values as { [mode]: value }, without the spread of token.values
updateNoSpread(h, R, path, value, mode) ==
    IF ~MapHas(R.tokens, path) THEN [heap |-> h, R |-> R, result |-> 0]
    ELSE LET token == h[MapGet(R.tokens, path)]
             updated ==
                 IF token.tier = "global" THEN [token EXCEPT !.value = value]
                 ELSE IF mode = "light"
                 THEN [token EXCEPT !.values = [present |-> TRUE, light |-> value,
                                                dark |-> Undef]]
                 ELSE IF mode = "dark"
                 THEN [token EXCEPT !.values = [present |-> TRUE, light |-> Undef,
                                                dark |-> value]]
                 ELSE token
             ref == Len(h) + 1
         IN [heap |-> Append(h, updated),
             R |-> [R EXCEPT !.tokens = MapSet(R.tokens, path, ref)],
             result |-> ref]

\* TokenResolver.update: the heap and the resolver after the call, and the
\* reference it returns (0 for null).  mode is "light", "dark" or "undef".
update(h, R, path, value, mode) ==
    IF ~MapHas(R.tokens, path) THEN [heap |-> h, R |-> R, result |-> 0]
    ELSE LET token == h[MapGet(R.tokens, path)]
             updated ==
                 IF token.tier = "global" THEN [token EXCEPT !.value = value]
                 ELSE IF mode = "light"
                 THEN [token EXCEPT !.values = [present |-> TRUE, light |-> value,
                                                dark |-> token.values.dark]]
                 ELSE IF mode = "dark"
                 THEN [token EXCEPT !.values = [present |-> TRUE, light |-> token.values.light,
                                                dark |-> value]]
                 ELSE token
             ref == Len(h) + 1
         IN [heap |-> Append(h, updated),
             R |-> [R EXCEPT !.tokens = MapSet(R.tokens, path, ref)],
             result |-> ref]

(***************************************************************************)
(* Token documents the resolvers are built from.  A collection is given by  *)
(* its name, its modes and its leaf variables in document order.            *)
(***************************************************************************)
\* A NestedVariables object is the sequence of its entries in Object.entries
\* order; an entry holds a TokenVariable, a nested object, or something else
NoVariable == [type |-> "", values |-> <<>>]

VariableEntry(key, variable) ==
    [key |-> key, kind |-> "variable", variable |-> variable, children |-> <<>>]

ObjectEntry(key, children) ==
    [key |-> key, kind |-> "object", variable |-> NoVariable, children |-> children]

OtherEntry(key) ==
    [key |-> key, kind |-> "other", variable |-> NoVariable, children |-> <<>>]

\* isTokenVariable
isTokenVariable(entry) == entry.kind = "variable"

\* What walkVariables hands to its callback: the path segments and the variable
Leaf(pathParts, variable) == [pathParts |-> pathParts, variable |-> variable]

\* TokenParser.walkVariables: the callback's arguments, in call order
RECURSIVE walkVariables(_, _)
walkVariables(obj, path) ==
    IF Len(obj) = 0 THEN <<>>
    ELSE LET currentPath == Append(path, obj[1].key)
             here == IF isTokenVariable(obj[1])
                     THEN <<Leaf(currentPath, obj[1].variable)>>
                     ELSE IF obj[1].kind = "object"
                     THEN walkVariables(obj[1].children, currentPath)
                     ELSE <<>>
         IN here \o walkVariables(Tail(obj), path)

\* TokenParser.parseCollection
parseCollection(collection, tier) ==
    LET leaves == walkVariables(collection.variables, <<>>)
    IN [i \in 1..Len(leaves) |->
           createToken(leaves[i].pathParts, leaves[i].variable,
                       collection.name, tier, collection.modes)]

\* TokenParser.parseAll
RECURSIVE parseAll(_)
parseAll(collections) ==
    IF Len(collections) = 0 THEN <<>>
    ELSE parseCollection(collections[1], getTier(collections[1].name))
         \o parseAll(Tail(collections))

\* A TokenVariable of type color; a mode whose value is undefined has no key
Variable(keys, vals) ==
    [type |-> "color",
     values |-> [k \in {keys[i] : i \in {j \in 1..Len(keys) : vals[j] # Undef}} |->
                    vals[CHOOSE i \in 1..Len(keys) : keys[i] = k]]]

\* The nested object that holds one variable at the end of a chain of keys
RECURSIVE Nest(_, _)
Nest(keys, variable) ==
    IF Len(keys) = 1 THEN VariableEntry(<<keys[1]>>, variable)
    ELSE ObjectEntry(<<keys[1]>>, <<Nest(Tail(keys), variable)>>)

Alias(collection, path) == Str(collection \o <<":">> \o path)

Lit1 == Str(<<"#111">>)
Lit2 == Str(<<"#222">>)
Lit3 == Str(<<"#333">>)
Number4 == Num(4)
ToGlobalA == Alias(<<"Global">>, <<"a">>)
ToBrandA == Alias(<<"Brand">>, <<"a">>)
ToBrandB == Alias(<<"Brand">>, <<"acpd", "/", "b">>)
ToCoreC == Alias(<<"Core">>, <<"c">>)
TwoSeparators == Str(<<"Brand", ":", "acpd", "/", "b", ":", "x">>)
NoCollection == Str(<<":", "a">>)
NoPath == Str(<<"Brand", ":">>)

\* The values the variables of a document family may hold, per slot
WideFamily ==
    [global |-> {Lit1, Number4, ToGlobalA, ToBrandA, ToBrandB, NoCollection},
     light |-> {Lit1, ToGlobalA, ToBrandA, ToBrandB, TwoSeparators},
     dark |-> {Undef, Lit2, ToBrandB},
     coreLight |-> {Lit1, ToBrandA, ToCoreC},
     coreDark |-> {Undef, ToBrandB},
     acpd |-> {ToBrandA, ToCoreC, NoPath},
     eeaa |-> {Undef}]

NarrowFamily ==
    [global |-> {Lit1, ToBrandA},
     light |-> {Lit1, ToBrandB},
     dark |-> {Undef, Lit2},
     coreLight |-> {ToBrandA},
     coreDark |-> {Undef},
     acpd |-> {ToBrandA},
     eeaa |-> {Undef}]

GlobalCollections(F) ==
    {[name |-> <<"Global">>, modes |-> <<"Default">>,
      variables |-> <<Nest(<<"a">>, Variable(<<"Default">>, <<v>>))>>] : v \in F.global}

BrandLeaves(F, keys) ==
    {Nest(keys, Variable(<<"Light", "Dark">>, <<l, d>>)) : l \in F.light, d \in F.dark}

BrandCollections(F) ==
    {[name |-> <<"Brand">>, modes |-> <<"Light", "Dark">>, variables |-> ls] :
        ls \in {<<x>> : x \in BrandLeaves(F, <<"a">>) \cup BrandLeaves(F, <<"acpd", "b">>)}
               \cup {<<x, y>> : x \in BrandLeaves(F, <<"a">>),
                                y \in BrandLeaves(F, <<"acpd", "b">>)}}

CoreCollections(F) ==
    {[name |-> <<"Core">>, modes |-> <<"Dark", "Light">>,
      variables |-> <<Nest(<<"c">>, Variable(<<"Light", "Dark">>, <<l, d>>))>>] :
        l \in F.coreLight, d \in F.coreDark}
    \cup
    {[name |-> <<"Core">>, modes |-> <<"ACPD", "EEAA">>,
      variables |-> <<Nest(<<"c">>, Variable(<<"ACPD", "EEAA">>, <<a, e>>))>>] :
        a \in F.acpd, e \in F.eeaa}

RECURSIVE NumLeaves(_)
NumLeaves(collections) ==
    IF Len(collections) = 0 THEN 0
    ELSE Len(walkVariables(collections[1].variables, <<>>)) + NumLeaves(Tail(collections))

\* Documents of at most maxTokens leaves: any of the three collections may be
\* missing, and they come in the order Global, Brand, Core or the reverse
Documents(F, maxTokens) ==
    LET Opt(S) == {<<>>} \cup {<<c>> : c \in S}
        G == Opt(GlobalCollections(F))
        B == Opt(BrandCollections(F))
        C == Opt(CoreCollections(F))
    IN {d \in {g \o b \o c : g \in G, b \in B, c \in C}
              \cup {c \o b \o g : g \in G, b \in B, c \in C} :
          NumLeaves(d) <= maxTokens}

QueryPaths == {<<"a">>, <<"acpd", "/", "b">>, <<"c">>}
Modes == {"light", "dark"}
UpdateValues == {Lit3, ToBrandB}
UpdateModes == {"light", "dark", "undef"}

(***************************************************************************)
(* State machine                                                           *)
(***************************************************************************)
R == [tokens |-> tokens, tokensByCollection |-> tokensByCollection]

\* A Branch of the provider (its sha, a timestamp string, is left out)
Branch(name, isDefault, isProtected) ==
    [name |-> name, isDefault |-> isDefault, isProtected |-> isProtected]

\* LocalFileProvider.constructor, over a file system that holds the given files
NewLocalFileProvider(fs) ==
    /\ branches = MapSet(EmptyMap, "main", Branch("main", TRUE, TRUE))
    /\ pullRequests = EmptyMap
    /\ prCounter = 1
    /\ files = fs
    /\ inflight = <<>>

\* useAppStore: the initial state of the web store
InitialStore ==
    [selectedBranch |-> "dev",
     editingSession |-> [isEditing |-> FALSE, branchName |-> "null",
                         startedAt |-> "null", changesCount |-> 0]]

NewWebClient ==
    /\ store = InitialStore
    /\ pending = {}
    /\ sent = {}

InitFrom(docs) ==
    /\ \E d \in docs :
          /\ heap = parseAll(d)
          /\ nInput = Len(heap)
          /\ tokens = constructor(heap, nInput).tokens
          /\ tokensByCollection = constructor(heap, nInput).tokensByCollection
          /\ nUpdates = 0
          /\ res = [op |-> "new"]
    /\ NewLocalFileProvider(EmptyMap)
    /\ NewWebClient

Init == InitFrom(Documents(WideFamily, MaxTokens))

InitU == InitFrom(Documents(NarrowFamily, MaxTokens))

CallResolve(path, mode) ==
    /\ res' = [op |-> "resolve", path |-> path, mode |-> mode,
               result |-> resolve(heap, R, path, mode).result,
               calls |-> resolve(heap, R, path, mode).calls]
    /\ UNCHANGED <<heap, nInput, tokens, tokensByCollection, nUpdates, provider, web>>

CallValidate ==
    /\ res' = [op |-> "validate", result |-> validate(heap, R)]
    /\ UNCHANGED <<heap, nInput, tokens, tokensByCollection, nUpdates, provider, web>>

CallGet(path) ==
    /\ res' = [op |-> "get", path |-> path, result |-> get(R, path)]
    /\ UNCHANGED <<heap, nInput, tokens, tokensByCollection, nUpdates, provider, web>>

CallGetAll ==
    /\ res' = [op |-> "getAll", result |-> getAll(R)]
    /\ UNCHANGED <<heap, nInput, tokens, tokensByCollection, nUpdates, provider, web>>

\* prev is the reference get(path) gave before the call
CallUpdate(path, value, mode) ==
    /\ nUpdates < MaxUpdates
    /\ LET u == update(heap, R, path, value, mode)
       IN /\ heap' = u.heap
          /\ tokens' = u.R.tokens
          /\ tokensByCollection' = u.R.tokensByCollection
          /\ res' = [op |-> "update", path |-> path, value |-> value, mode |-> mode,
                     prev |-> get(R, path), result |-> u.result]
    /\ nUpdates' = nUpdates + 1
    /\ UNCHANGED <<nInput, provider, web>>

Query ==
    \/ \E path \in QueryPaths, mode \in Modes : CallResolve(path, mode)
    \/ CallValidate
    \/ \E path \in QueryPaths : CallGet(path)
    \/ CallGetAll

Next == Query

Spec == Init /\ [][Next]_vars

NextU ==
    \/ Query
    \/ \E path \in QueryPaths, value \in UpdateValues, mode \in UpdateModes :
          CallUpdate(path, value, mode)

SpecU == InitU /\ [][NextU]_vars

(***************************************************************************)
(* Vocabulary of the claims: the alias chain of a token of the input set,   *)
(* read off the token set itself (tokens are identified by collection and   *)
(* path), independently of the resolver's indexes.                          *)
(***************************************************************************)
Input == 1..nInput

\* The number of ":" in a string
RECURSIVE CountSeparators(_)
CountSeparators(s) ==
    IF Len(s) = 0 THEN 0
    ELSE (IF s[1] = ":" THEN 1 ELSE 0) + CountSeparators(Tail(s))

HasSeparator(v) == v.t = "str" /\ CountSeparators(v.s) > 0

\* "<collection>:<path>": one separator, a collection before it and a path after it
WellFormedAlias(v) ==
    /\ v.t = "str"
    /\ CountSeparators(v.s) = 1
    /\ v.s[1] # ":"
    /\ v.s[Len(v.s)] # ":"

MalformedAlias(v) == HasSeparator(v) /\ ~WellFormedAlias(v)

\* The input tokens a well-formed alias names (at most one: ids are unique)
Targets(v) == {j \in Input : heap[j].id = v.s}

\* The slot of a token for a theme mode
ThemeSlot(i, m) ==
    IF heap[i].tier = "global" THEN heap[i].value
    ELSE IF ~heap[i].values.present THEN Undef
    ELSE IF m = "light" THEN heap[i].values.light ELSE heap[i].values.dark

\* Where the alias chain from token i's slot for mode m ends
RECURSIVE Chain(_, _, _)
Chain(i, m, seen) ==
    LET v == ThemeSlot(i, m)
    IN IF i \in seen THEN [kind |-> "cycle", value |-> Undef]
       ELSE IF v = Undef THEN [kind |-> "absent", value |-> Undef]
       ELSE IF MalformedAlias(v) THEN [kind |-> "malformed", value |-> Undef]
       ELSE IF WellFormedAlias(v)
       THEN IF Targets(v) = {} THEN [kind |-> "missing", value |-> Undef]
            ELSE Chain(CHOOSE j \in Targets(v) : TRUE, m, seen \cup {i})
       ELSE [kind |-> "literal", value |-> v]

ChainEnd(i, m) == Chain(i, m, {})

\* Two input tokens of different collections have the same path
SharedPath == \E i, j \in Input : i # j /\ heap[i].path = heap[j].path

(***************************************************************************)
(* C1: when the alias chain from a token's slot for m ends in a literal,    *)
(* resolve(path, m) returns that literal, and never an alias string.        *)
(* Stated for every token of the input set; fails where two collections     *)
(* hold a token at the same path (the by-path index keeps one of them).     *)
(***************************************************************************)
C1_ResolveReturnsChainLiteral ==
    res.op = "resolve" =>
        /\ ~isAlias(res.result)
        /\ \A i \in Input :
              (heap[i].path = res.path /\ ChainEnd(i, res.mode).kind = "literal")
                 => res.result = ChainEnd(i, res.mode).value

(***************************************************************************)
(* C2: for a brand or component token and a mode m, resolve returns null    *)
(* iff the chain for slot m is absent, malformed, missing its target or     *)
(* cyclic.  Fails: an alias with two separators is followed as if it were   *)
(* well-formed.                                                             *)
(***************************************************************************)
C2_NullIffChainBroken ==
    res.op = "resolve" =>
        \A i \in Input :
            (heap[i].path = res.path /\ heap[i].tier \in {"brand", "component"})
               => ((res.result = Null) <=> (ChainEnd(i, res.mode).kind # "literal"))

C4_GlobalModeIndependent ==
    res.op = "resolve" =>
        \A i \in Input :
            (heap[i].tier = "global" /\ heap[i].path = res.path) =>
                /\ resolve(heap, R, res.path, "light").result
                      = resolve(heap, R, res.path, "dark").result
                /\ \A m \in Modes :
                      ChainEnd(i, m).kind = "literal" => res.result = ChainEnd(i, m).value

\* The errors of the last validate() call
Errors == {res.result.errors[k] : k \in 1..Len(res.result.errors)}

\* The theme modes validate applies to a token of the set
TierModes(i) == IF heap[i].tier = "global" THEN {"light"} ELSE {"light", "dark"}

\* The brand-mode slots of a token whose values live in brandValues
BrandSlots(i) ==
    IF heap[i].brandValues.present
    THEN {heap[i].brandValues.acpd, heap[i].brandValues.eeaa}
    ELSE {}

\* Every slot a token holds
OwnSlots(i) == {ThemeSlot(i, m) : m \in TierModes(i)} \cup BrandSlots(i)

(***************************************************************************)
(* C5: validate reports circular_reference for token t under mode m exactly *)
(* when the chain from t's slot for m returns to a token already visited,   *)
(* and resolve returns null for such a token under that mode.               *)
(***************************************************************************)
C5_CircularReportedExactly ==
    res.op = "validate" =>
        \A i \in Input : \A m \in TierModes(i) :
            /\ (\E e \in Errors : /\ e.path = heap[i].path
                                  /\ e.type = "circular_reference"
                                  /\ e.mode = m)
                  <=> (ChainEnd(i, m).kind = "cycle")
            /\ ChainEnd(i, m).kind = "cycle"
                  => resolve(heap, R, heap[i].path, m).result = Null

(***************************************************************************)
(* C6: validate reports invalid_value, and not missing_reference, for every *)
(* slot whose string contains ":" but is not of the form collection:path.   *)
(* Fails: parseAlias never rejects a string that contains ":".              *)
(***************************************************************************)
C6_MalformedIsInvalidValue ==
    res.op = "validate" =>
        \A i \in Input : \A v \in OwnSlots(i) :
            MalformedAlias(v) =>
                /\ \E e \in Errors : /\ e.path = heap[i].path
                                     /\ e.type = "invalid_value"
                                     /\ e.value = v
                /\ ~\E e \in Errors : /\ e.path = heap[i].path
                                      /\ e.type = "missing_reference"
                                      /\ e.value = v

(***************************************************************************)
(* C7: validate reports missing_reference for a token exactly when one of   *)
(* its own slots holds a well-formed alias whose target does not exist, and *)
(* resolve returns null for the token under that slot's mode.               *)
(***************************************************************************)
C7_MissingReportedExactly ==
    res.op = "validate" =>
        \A i \in Input :
            /\ (\E e \in Errors : e.path = heap[i].path /\ e.type = "missing_reference")
                  <=> (\E v \in OwnSlots(i) : WellFormedAlias(v) /\ Targets(v) = {})
            /\ \A m \in TierModes(i) :
                  (WellFormedAlias(ThemeSlot(i, m)) /\ Targets(ThemeSlot(i, m)) = {})
                     => resolve(heap, R, heap[i].path, m).result = Null

(***************************************************************************)
(* C8: validate examines every token under every mode applicable to its     *)
(* tier, brand modes of brandValues included: every offending slot          *)
(* contributes an error, and valid is true exactly when there is no error.  *)
(***************************************************************************)
C8_ValidateExaminesEverySlot ==
    res.op = "validate" =>
        /\ res.result.valid <=> (Len(res.result.errors) = 0)
        /\ \A i \in Input :
              /\ \A m \in TierModes(i) :
                    (\/ ChainEnd(i, m).kind = "cycle"
                     \/ MalformedAlias(ThemeSlot(i, m))
                     \/ WellFormedAlias(ThemeSlot(i, m)) /\ Targets(ThemeSlot(i, m)) = {})
                       => \E e \in Errors :
                             /\ e.path = heap[i].path
                             /\ \/ heap[i].tier = "global"
                                \/ e.mode = m
                                \/ e.value = ThemeSlot(i, m)
              /\ \A v \in BrandSlots(i) :
                    (MalformedAlias(v) \/ (WellFormedAlias(v) /\ Targets(v) = {}))
                       => \E e \in Errors : e.path = heap[i].path /\ e.value = v

(***************************************************************************)
(* update.  An update step is a step that increases nUpdates; res' then     *)
(* holds the call, the reference get(path) gave before it (prev) and the    *)
(* reference it returned (result, 0 for null).                              *)
(***************************************************************************)
RAfter == [tokens |-> tokens', tokensByCollection |-> tokensByCollection']

UpdateStep == nUpdates' # nUpdates

(***************************************************************************)
(* C9 as stated: update does not change the resolver; after update(p, v, m) *)
(* get(p), resolve(q, mode) for every q and mode, and validate() return     *)
(* what they returned before.                                               *)
(***************************************************************************)
C9_UpdateLeavesResolverUnchanged ==
    [][UpdateStep =>
          /\ (get(R, res'.path) # 0 =>
                 /\ get(RAfter, res'.path) # 0
                 /\ heap'[get(RAfter, res'.path)] = heap[get(R, res'.path)])
          /\ \A q \in QueryPaths : \A m \in Modes :
                resolve(heap', RAfter, q, m).result = resolve(heap, R, q, m).result
          /\ validate(heap', RAfter) = validate(heap, R)]_vars

(***************************************************************************)
(* C9 as amended: update changes the resolver at the updated path only.     *)
(* On an unknown path nothing changes.  On a known path p the by-path entry *)
(* of p is replaced by the returned new token, so get(p) returns it from    *)
(* then on; get(q) for every other path q returns what it returned before,  *)
(* the order of the paths is kept, and no token object that existed before  *)
(* the call is modified.                                                    *)
(***************************************************************************)
C9_UpdateChangesOnlyItsPath ==
    [][UpdateStep =>
          /\ res'.result = 0 =>
                /\ heap' = heap
                /\ tokens' = tokens
                /\ tokensByCollection' = tokensByCollection
          /\ res'.result # 0 =>
                /\ get(RAfter, res'.path) = res'.result
                /\ res'.result \notin DOMAIN heap
                /\ tokens'.keys = tokens.keys
                /\ \A q \in QueryPaths : q # res'.path => get(RAfter, q) = get(R, q)
                /\ \A ref \in DOMAIN heap : heap'[ref] = heap[ref]]_vars

\* An update of a known path whose new token differs from the stored one
C9_Witness ==
    /\ res.op = "update"
    /\ res.result # 0
    /\ heap[res.result] # heap[res.prev]
    /\ get(R, res.path) = res.result
    /\ Len(tokens.keys) >= 2

(***************************************************************************)
(* C10: update returns null when the path is unknown; otherwise a new token *)
(* equal to the stored one except that value is overwritten for a global    *)
(* token (mode ignored) or values[mode] for a brand token; the token object *)
(* obtained earlier for the path is not modified.                           *)
(***************************************************************************)
C10_UpdateReturnsOverwrittenCopy ==
    [][UpdateStep =>
          LET prev == get(R, res'.path)
              new == res'.result
          IN /\ (prev = 0) <=> (new = 0)
             /\ prev # 0 =>
                   /\ new \notin DOMAIN heap
                   /\ heap'[prev] = heap[prev]
                   /\ heap[prev].tier = "global" =>
                         heap'[new] = [heap[prev] EXCEPT !.value = res'.value]
                   /\ (heap[prev].tier = "brand" /\ res'.mode = "light") =>
                         /\ heap'[new].values.light = res'.value
                         /\ heap'[new].values.dark = heap[prev].values.dark
                         /\ [heap'[new] EXCEPT !.values = heap[prev].values] = heap[prev]
                   /\ (heap[prev].tier = "brand" /\ res'.mode = "dark") =>
                         /\ heap'[new].values.dark = res'.value
                         /\ heap'[new].values.light = heap[prev].values.light
                         /\ [heap'[new] EXCEPT !.values = heap[prev].values] = heap[prev]]_vars

\* A brand token whose dark slot was overwritten while its light slot holds a value
C10_Witness ==
    /\ res.op = "update"
    /\ res.result # 0
    /\ heap[res.prev].tier = "brand"
    /\ res.mode = "dark"
    /\ heap[res.result].values.dark = res.value
    /\ heap[res.prev].values.dark # res.value
    /\ heap[res.result].values.light # Undef

(***************************************************************************)
(* C11: over any sequence of update calls, the token held for a path keeps  *)
(* the tier and the populated value field (value, values or brandValues) of *)
(* the token the resolver was constructed with for that path.  Fails:       *)
(* update(path, v, mode) on a token that stores brandValues adds a values   *)
(* field next to it.                                                        *)
(***************************************************************************)
\* The value fields a token object has populated
ValueFields(t) ==
    {f \in {"value"} : t.value # Undef}
    \cup {f \in {"values"} : t.values.present}
    \cup {f \in {"brandValues"} : t.brandValues.present}

C11_UpdateKeepsValueField ==
    \A k \in 1..Len(tokens.keys) :
        LET created == heap[MapGet(constructor(heap, nInput).tokens, tokens.keys[k])]
            held == heap[tokens.val[k]]
        IN /\ held.tier = created.tier
           /\ ValueFields(held) = ValueFields(created)

(***************************************************************************)
(* TokenParser on whole documents: the constructor's map of collections by  *)
(* name, parseAll and parseByBrand, over documents whose collections vary   *)
(* in name, mode list, nesting and segment keys.                            *)
(***************************************************************************)
MaxCollections == 2     \* collections in one document

\* TokenParser.constructor: new Map(tokensFile.collections.map((c) => [c.name, c]))
RECURSIVE TokenParser(_)
TokenParser(tokensFile) ==
    IF Len(tokensFile) = 0 THEN EmptyMap
    ELSE LET n == Len(tokensFile)
         IN MapSet(TokenParser(SubSeq(tokensFile, 1, n - 1)),
                   tokensFile[n].name, tokensFile[n])

\* new TokenParser(tokensFile).parseAll()
parseAllOf(tokensFile) == parseAll(MapValues(TokenParser(tokensFile)))

\* parseByBrand without the !token.brand disjunct of its filter
parseByBrandNoShared(tokensFile, brand) ==
    LET keep(token) == token.brand = brand \/ token.tier = "global"
    IN SelectSeq(parseAllOf(tokensFile), keep)

\* TokenParser.parseByBrand
parseByBrand(tokensFile, brand) ==
    LET keep(token) == token.brand = brand \/ token.tier = "global" \/ token.brand = "null"
    IN SelectSeq(parseAllOf(tokensFile), keep)

\* The value a variable of the documents holds for a mode
ModeValue(mode) ==
    CASE mode = "Default" -> Lit1
      [] mode = "Light" -> Lit1
      [] mode = "Dark" -> Lit2
      [] mode = "ACPD" -> ToBrandA
      [] mode = "EEAA" -> ToBrandB
      [] OTHER -> Lit3

VariableOf(modes) == Variable(modes, [i \in 1..Len(modes) |-> ModeValue(modes[i])])

ModeLists ==
    {<<"Default">>, <<"Light", "Dark">>, <<"Dark", "Light">>, <<"ACPD", "EEAA">>,
     <<"Default", "Dark">>, <<"Compact">>, <<>>}

NaturalModes(name) ==
    CASE name = <<"Global">> -> <<"Default">>
      [] name = <<"Brand">> -> <<"Light", "Dark">>
      [] OTHER -> <<"ACPD", "EEAA">>

CollectionNames == {<<"Global">>, <<"Brand">>, <<"Core">>}

\* Shapes of a collection's variables: flat, nested, a key that contains the
\* path separator, and combinations in both key orders
VariableShapes(v) ==
    {<<Nest(<<"a">>, v)>>,
     <<Nest(<<"acpd", "b">>, v)>>,
     <<Nest(<<"EEAA", "b">>, v)>>,
     <<VariableEntry(<<"acpd", "/", "b">>, v)>>,
     <<Nest(<<"acpd", "b">>, v), VariableEntry(<<"acpd", "/", "b">>, v)>>,
     <<Nest(<<"a">>, v), VariableEntry(<<"a", "/", "b">>, v)>>,
     <<VariableEntry(<<"a", "/", "b">>, v), Nest(<<"a">>, v)>>,
     <<OtherEntry(<<"x">>), Nest(<<"a">>, v)>>}

ParserCollections ==
    {[name |-> name, modes |-> modes, variables |-> <<Nest(<<"a">>, VariableOf(modes))>>] :
        name \in CollectionNames, modes \in ModeLists}
    \cup
    UNION {{[name |-> name, modes |-> NaturalModes(name), variables |-> vs] :
               vs \in VariableShapes(VariableOf(NaturalModes(name)))} :
           name \in CollectionNames}

\* The collections that accompany another one in a longer document
NaturalCollections ==
    {c \in ParserCollections :
        /\ c.modes = NaturalModes(c.name)
        /\ \E v \in {VariableOf(c.modes)} :
               c.variables \in {<<Nest(<<"a">>, v)>>, <<Nest(<<"acpd", "b">>, v)>>}}

\* Documents of n collections: any collection, with natural ones before or after it
RECURSIVE DocumentsOfLen(_)
DocumentsOfLen(n) ==
    IF n = 0 THEN {<<>>}
    ELSE IF n = 1 THEN {<<c>> : c \in ParserCollections}
    ELSE {Append(d, c) : d \in DocumentsOfLen(n - 1), c \in NaturalCollections}
         \cup {<<c>> \o d : d \in DocumentsOfLen(n - 1), c \in NaturalCollections}

ParserDocuments == UNION {DocumentsOfLen(n) : n \in 0..MaxCollections}

Brands == {"acpd", "eeaa"}

(***************************************************************************)
(* buildTokenTree / flattenTree (tree.ts).  A TokenTreeNode is a record     *)
(* [name, path, children, isLeaf, token]; token is the reference of the     *)
(* token object attached to the node, 0 for undefined.                      *)
(***************************************************************************)
\* String.prototype.split('/')
RECURSIVE SplitPathFrom(_, _, _)
SplitPathFrom(s, i, cur) ==
    IF i > Len(s) THEN <<cur>>
    ELSE IF s[i] = "/" THEN <<cur>> \o SplitPathFrom(s, i + 1, <<>>)
    ELSE SplitPathFrom(s, i + 1, Append(cur, s[i]))

SplitPath(s) == SplitPathFrom(s, 1, <<>>)

TreeNode(name, path, children, isLeaf, token) ==
    [name |-> name, path |-> path, children |-> children, isLeaf |-> isLeaf, token |-> token]

\* current.children.find((c) => c.name === part): its index, 0 when there is none
FindChild(children, part) ==
    IF \E k \in 1..Len(children) : children[k].name = part
    THEN CHOOSE k \in 1..Len(children) :
            /\ children[k].name = part
            /\ \A j \in 1..(k - 1) : children[j].name # part
    ELSE 0

\* The inner loop without the "else if (isLast)" branch of lines 34-37
RECURSIVE InsertTokenNoRevisit(_, _, _, _)
InsertTokenNoRevisit(current, parts, i, ref) ==
    LET part == parts[i]
        currentPath == JoinPath(SubSeq(parts, 1, i))
        isLast == i = Len(parts)
        k == FindChild(current.children, part)
        child == IF k = 0
                 THEN TreeNode(part, currentPath, <<>>, isLast, IF isLast THEN ref ELSE 0)
                 ELSE current.children[k]
        below == IF isLast THEN child ELSE InsertTokenNoRevisit(child, parts, i + 1, ref)
    IN [current EXCEPT !.children =
           IF k = 0 THEN Append(current.children, below)
           ELSE [current.children EXCEPT ![k] = below]]

\* The inner loop of buildTokenTree from segment i on, below the node current
RECURSIVE InsertToken(_, _, _, _)
InsertToken(current, parts, i, ref) ==
    LET part == parts[i]
        currentPath == JoinPath(SubSeq(parts, 1, i))
        isLast == i = Len(parts)
        k == FindChild(current.children, part)
        child == IF k = 0
                 THEN TreeNode(part, currentPath, <<>>, isLast, IF isLast THEN ref ELSE 0)
                 ELSE IF isLast
                 THEN [current.children[k] EXCEPT !.isLeaf = TRUE, !.token = ref]
                 ELSE current.children[k]
        below == IF isLast THEN child ELSE InsertToken(child, parts, i + 1, ref)
    IN [current EXCEPT !.children =
           IF k = 0 THEN Append(current.children, below)
           ELSE [current.children EXCEPT ![k] = below]]

\* The outer loop of buildTokenTree over the tokens h[1..n]
RECURSIVE InsertAll(_, _)
InsertAll(h, n) ==
    IF n = 0 THEN TreeNode(<<"root">>, <<>>, <<>>, FALSE, 0)
    ELSE InsertToken(InsertAll(h, n - 1), SplitPath(h[n].path), 1, n)

\* String.prototype.localeCompare on the segment names that occur
AtomRank(a) ==
    CASE a = "a" -> 1 [] a = "acpd" -> 2 [] a = "b" -> 3 [] a = "c" -> 4
      [] a = "eeaa" -> 5 [] a = "EEAA" -> 6 [] a = "x" -> 7 [] OTHER -> 8

RECURSIVE localeCompare(_, _)
localeCompare(a, b) ==
    IF Len(a) = 0 THEN (IF Len(b) = 0 THEN 0 ELSE -1)
    ELSE IF Len(b) = 0 THEN 1
    ELSE IF AtomRank(a[1]) < AtomRank(b[1]) THEN -1
    ELSE IF AtomRank(a[1]) > AtomRank(b[1]) THEN 1
    ELSE localeCompare(Tail(a), Tail(b))

\* The comparator of sortTreeRecursive: folders before leaves, then by name
CompareNodes(a, b) ==
    IF a.isLeaf # b.isLeaf THEN (IF a.isLeaf THEN 1 ELSE -1)
    ELSE localeCompare(a.name, b.name)

\* Array.prototype.sort with that comparator (stable)
RECURSIVE SortNodes(_)
SortNodes(nodes) ==
    IF Len(nodes) <= 1 THEN nodes
    ELSE LET n == Len(nodes)
             sorted == SortNodes(SubSeq(nodes, 1, n - 1))
             x == nodes[n]
             before == {k \in 1..Len(sorted) : CompareNodes(sorted[k], x) <= 0}
             at == IF before = {} THEN 0
                   ELSE CHOOSE k \in before : \A j \in before : j <= k
         IN SubSeq(sorted, 1, at) \o <<x>> \o SubSeq(sorted, at + 1, Len(sorted))

RECURSIVE sortTreeRecursive(_)
sortTreeRecursive(node) ==
    LET sorted == SortNodes(node.children)
    IN [node EXCEPT !.children = [k \in 1..Len(sorted) |-> sortTreeRecursive(sorted[k])]]

\* buildTokenTree(tokens), tokens being h[1..n]
buildTokenTree(h, n) == sortTreeRecursive(InsertAll(h, n))

\* flattenTree: the references pushed by traverse, in order
RECURSIVE flattenTree(_)
RECURSIVE TraverseAll(_)
flattenTree(tree) ==
    (IF tree.token # 0 THEN <<tree.token>> ELSE <<>>) \o TraverseAll(tree.children)

TraverseAll(children) ==
    IF Len(children) = 0 THEN <<>>
    ELSE flattenTree(children[1]) \o TraverseAll(Tail(children))

(***************************************************************************)
(* The token diff of GET /api/pull-requests/:number: base and head are the  *)
(* tokens.json documents of the target and the source branch.               *)
(***************************************************************************)
\* new Set([...baseTokens.map((t) => t.path), ...headTokens.map((t) => t.path)])
RECURSIVE PathSet(_, _)
PathSet(seen, list) ==
    IF Len(list) = 0 THEN seen
    ELSE PathSet(IF \E k \in 1..Len(seen) : seen[k] = list[1].path
                 THEN seen ELSE Append(seen, list[1].path),
                 Tail(list))

TokenChange(path, type, mode, oldValue, newValue, oldResolved, newResolved) ==
    [path |-> path, type |-> type, mode |-> mode, oldValue |-> oldValue,
     newValue |-> newValue, oldResolved |-> oldResolved, newResolved |-> newResolved]

\* token.tier === 'global' ? token.value : token.values?.light
LightValue(token) == SlotValue(token, "light")

\* The entries pushed for the modes of a path present on both sides
RECURSIVE ModeChanges(_, _, _, _, _, _)
ModeChanges(path, modes, bh, bR, hh, hR) ==
    IF Len(modes) = 0 THEN <<>>
    ELSE LET mode == modes[1]
             baseToken == bh[get(bR, path)]
             headToken == hh[get(hR, path)]
             oldValue == SlotValue(baseToken, mode)
             newValue == SlotValue(headToken, mode)
             here == IF oldValue # newValue
                     THEN <<TokenChange(path, headToken.type,
                                        IF baseToken.tier # "global" THEN mode ELSE "undef",
                                        oldValue, newValue,
                                        resolve(bh, bR, path, mode).result,
                                        resolve(hh, hR, path, mode).result)>>
                     ELSE <<>>
         IN here \o ModeChanges(path, Tail(modes), bh, bR, hh, hR)

\* The loop over allPaths without the deleted-token branch of lines 181-188
RECURSIVE PathChangesNoDeletion(_, _, _, _, _)
PathChangesNoDeletion(paths, bh, bR, hh, hR) ==
    IF Len(paths) = 0 THEN <<>>
    ELSE LET path == paths[1]
             baseRef == get(bR, path)
             headRef == get(hR, path)
             here ==
                 IF baseRef = 0 /\ headRef # 0
                 THEN <<TokenChange(path, hh[headRef].type, "undef", Null,
                                    LightValue(hh[headRef]), Undef, Undef)>>
                 ELSE IF baseRef # 0 /\ headRef # 0
                 THEN ModeChanges(path,
                                  IF bh[baseRef].tier = "global" THEN <<"light">>
                                  ELSE <<"light", "dark">>,
                                  bh, bR, hh, hR)
                 ELSE <<>>
         IN here \o PathChangesNoDeletion(Tail(paths), bh, bR, hh, hR)

\* The body of the loop over allPaths
RECURSIVE PathChanges(_, _, _, _, _)
PathChanges(paths, bh, bR, hh, hR) ==
    IF Len(paths) = 0 THEN <<>>
    ELSE LET path == paths[1]
             baseRef == get(bR, path)
             headRef == get(hR, path)
             here ==
                 IF baseRef = 0 /\ headRef # 0
                 THEN <<TokenChange(path, hh[headRef].type, "undef", Null,
                                    LightValue(hh[headRef]), Undef, Undef)>>
                 ELSE IF baseRef # 0 /\ headRef = 0
                 THEN <<TokenChange(path, bh[baseRef].type, "undef",
                                    LightValue(bh[baseRef]), Null, Undef, Undef)>>
                 ELSE IF baseRef # 0 /\ headRef # 0
                 THEN ModeChanges(path,
                                  IF bh[baseRef].tier = "global" THEN <<"light">>
                                  ELSE <<"light", "dark">>,
                                  bh, bR, hh, hR)
                 ELSE <<>>
         IN here \o PathChanges(Tail(paths), bh, bR, hh, hR)

\* tokenChanges for the documents base and head
diffTokens(base, head) ==
    LET baseTokens == parseAllOf(base)
        headTokens == parseAllOf(head)
        baseResolver == constructor(baseTokens, Len(baseTokens))
        headResolver == constructor(headTokens, Len(headTokens))
        allPaths == PathSet(PathSet(<<>>, baseTokens), headTokens)
    IN PathChanges(allPaths, baseTokens, baseResolver, headTokens, headResolver)

(***************************************************************************)
(* State machine of the requests that parse a document: the token list and  *)
(* the resolver built from it (GET /api/tokens), the tree built from the    *)
(* list (GET /api/tokens/tree) and the diff of two documents.  Requests     *)
(* share no state (each constructs its own parser and resolver), so a       *)
(* behaviour is one request.                                                *)
(***************************************************************************)
\* new TokenResolver(list) for a freshly parsed list
LoadTokens(list) ==
    /\ heap' = list
    /\ nInput' = Len(list)
    /\ tokens' = constructor(list, Len(list)).tokens
    /\ tokensByCollection' = constructor(list, Len(list)).tokensByCollection
    /\ UNCHANGED <<nUpdates, provider, web>>

CallParseAll(tokensFile) ==
    /\ res.op = "new"
    /\ LoadTokens(parseAllOf(tokensFile))
    /\ res' = [op |-> "parseAll", tokensFile |-> tokensFile, brand |-> "null",
               result |-> parseAllOf(tokensFile)]

CallParseByBrand(tokensFile, brand) ==
    /\ res.op = "new"
    /\ LoadTokens(parseByBrand(tokensFile, brand))
    /\ res' = [op |-> "parseByBrand", tokensFile |-> tokensFile, brand |-> brand,
               result |-> parseByBrand(tokensFile, brand)]

\* const tree = buildTokenTree(tokens), on the list just parsed
CallBuildTokenTree ==
    /\ res.op \in {"parseAll", "parseByBrand"}
    /\ res' = [op |-> "buildTokenTree", tokensFile |-> res.tokensFile, brand |-> res.brand,
               result |-> buildTokenTree(heap, nInput)]
    /\ UNCHANGED <<heap, nInput, tokens, tokensByCollection, nUpdates, provider, web>>

CallFlattenTree ==
    /\ res.op = "buildTokenTree"
    /\ res' = [op |-> "flattenTree", tokensFile |-> res.tokensFile, brand |-> res.brand,
               tree |-> res.result, result |-> flattenTree(res.result)]
    /\ UNCHANGED <<heap, nInput, tokens, tokensByCollection, nUpdates, provider, web>>

CallDiffTokens(base, head) ==
    /\ res.op = "new"
    /\ res' = [op |-> "diffTokens", base |-> base, head |-> head,
               result |-> diffTokens(base, head),
               reverse |-> diffTokens(head, base)]
    /\ UNCHANGED <<heap, nInput, tokens, tokensByCollection, nUpdates, provider, web>>

MaxDiffTokens == 1      \* tokens of a document of DiffFamily

\* The values of the documents whose tokens differ in their raw values
DiffFamily ==
    [global |-> {Lit1, ToBrandA},
     light |-> {Lit1, ToBrandB},
     dark |-> {Undef, Lit2},
     coreLight |-> {ToBrandA},
     coreDark |-> {Undef},
     acpd |-> {ToBrandA, ToBrandB},
     eeaa |-> {Undef}]

\* The documents the diff is taken of
DiffDocuments ==
    {d \in ParserDocuments : Len(d) <= 1}
    \cup Documents(DiffFamily, MaxDiffTokens)
    \cup {<<x, y>> : x \in {c \in ParserCollections :
                               c.variables = <<Nest(<<"a">>, VariableOf(c.modes))>>
                               /\ c.modes = NaturalModes(c.name)},
                     y \in {c \in ParserCollections :
                               c.variables = <<Nest(<<"a">>, VariableOf(c.modes))>>
                               /\ c.modes \in {<<"Light", "Dark">>, <<"Default">>}}}

InitP == InitFrom({<<>>})

NextP ==
    \/ \E tokensFile \in ParserDocuments : CallParseAll(tokensFile)
    \/ \E tokensFile \in ParserDocuments, brand \in Brands : CallParseByBrand(tokensFile, brand)
    \/ CallBuildTokenTree
    \/ CallFlattenTree

SpecP == InitP /\ [][NextP]_vars

\* The requests that diff two documents
NextD == \E base \in DiffDocuments, head \in DiffDocuments : CallDiffTokens(base, head)

SpecD == InitP /\ [][NextD]_vars


(***************************************************************************)
(* Vocabulary of the claims about parsed documents                          *)
(***************************************************************************)
\* The tokens flatten (parseAll) returned in the last request
Flattened == {res.result[k] : k \in 1..Len(res.result)}

\* The collection of the document that a token was created from
CollectionOf(token) == MapGet(TokenParser(res.tokensFile), token.collection)

\* The three supported shapes of a mode list
IsDefaultModes(modes) == modes = <<"Default">>
IsThemeModes(modes) == Len(modes) = 2 /\ {modes[1], modes[2]} = {"Light", "Dark"}
IsBrandCodeModes(modes) == Len(modes) = 2 /\ {modes[1], modes[2]} = {"ACPD", "EEAA"}
SupportedModes(modes) == IsDefaultModes(modes) \/ IsThemeModes(modes) \/ IsBrandCodeModes(modes)

C13_UnsupportedModesRejected ==
    res.op = "parseAll" =>
        \A token \in Flattened : SupportedModes(CollectionOf(token).modes)

(***************************************************************************)
(* C14: resolving a component token that stores brandValues, for brand b    *)
(* and theme mode m, follows brandValues[b] to the Brand token it names,    *)
(* then that token's chain for m, and returns the literal at its end: both  *)
(* resolve(path, m) and the entry of resolveAll(b, m) for the path are that *)
(* literal, not null.  Fails: the resolver never reads brandValues.         *)
(***************************************************************************)
\* brandValues[b] of a token of the input set
BrandSlot(i, b) ==
    IF b = "acpd" THEN heap[i].brandValues.acpd ELSE heap[i].brandValues.eeaa

C14_CoreResolvesThroughBrand ==
    res.op = "resolve" =>
        \A i \in Input : \A b \in Brands :
            (/\ heap[i].path = res.path
             /\ heap[i].tier = "component"
             /\ heap[i].brandValues.present
             /\ WellFormedAlias(BrandSlot(i, b))
             /\ Targets(BrandSlot(i, b)) # {}
             /\ \A j \in Targets(BrandSlot(i, b)) :
                    heap[j].tier = "brand" /\ ChainEnd(j, res.mode).kind = "literal")
            => LET j == CHOOSE j \in Targets(BrandSlot(i, b)) : TRUE
                   all == resolveAll(heap, R, b, res.mode)
               IN /\ res.result = ChainEnd(j, res.mode).value
                  /\ MapHas(all, res.path)
                  /\ MapGet(all, res.path) = ChainEnd(j, res.mode).value

(***************************************************************************)
(* The read operations of a resolver, resolveAll included                   *)
(***************************************************************************)
CallResolveAll(brand, mode) ==
    /\ res' = [op |-> "resolveAll", brand |-> brand, mode |-> mode,
               result |-> resolveAll(heap, R, brand, mode)]
    /\ UNCHANGED <<heap, nInput, tokens, tokensByCollection, nUpdates, provider, web>>

NextQ ==
    \/ Query
    \/ \E brand \in Brands, mode \in Modes : CallResolveAll(brand, mode)

SpecQ == InitU /\ [][NextQ]_vars

UniqueCollectionNames(tokensFile) ==
    \A i, j \in 1..Len(tokensFile) : i # j => tokensFile[i].name # tokensFile[j].name

C16_IdsUnique ==
    (res.op = "parseAll" /\ UniqueCollectionNames(res.tokensFile)) =>
        \A i, j \in 1..Len(res.result) : i # j => res.result[i].id # res.result[j].id

(***************************************************************************)
(* C17: parseByBrand(b) returns exactly the tokens of flatten(document)     *)
(* that are global, or tagged with brand b, or carry no brand tag, in the   *)
(* order of flatten; tokens of a shared component collection (brand null)   *)
(* are always included and tokens tagged with the other brand never are.    *)
(***************************************************************************)
C17_ParseByBrandFilters ==
    res.op = "parseByBrand" =>
        LET all == parseAllOf(res.tokensFile)
            kept == {k \in 1..Len(all) :
                        \/ all[k].tier = "global"
                        \/ all[k].brand = res.brand
                        \/ all[k].brand = "null"}
            nth(r) == CHOOSE k \in kept : Cardinality({j \in kept : j <= k}) = r
        IN /\ Len(res.result) = Cardinality(kept)
           /\ \A r \in 1..Len(res.result) : res.result[r] = all[nth(r)]
           /\ \A k \in 1..Len(all) :
                 (all[k].tier = "component" /\ all[k].brand = "null")
                    => \E r \in 1..Len(res.result) : res.result[r] = all[k]
           /\ \A r \in 1..Len(res.result) : res.result[r].brand \in {"null", res.brand}

\* A shared component token kept while a token of the other brand is dropped
C17_Witness ==
    /\ res.op = "parseByBrand"
    /\ \E r \in 1..Len(res.result) :
          res.result[r].tier = "component" /\ res.result[r].brand = "null"
    /\ \E token \in {parseAllOf(res.tokensFile)[k] : k \in 1..Len(parseAllOf(res.tokensFile))} :
          token.brand \notin {"null", res.brand}

(***************************************************************************)
(* C18: for a document with unique leaf paths per collection,               *)
(* flattenTree(buildTokenTree(flatten(document))) contains exactly the      *)
(* tokens of flatten(document): the same paths and for each the same token, *)
(* also when two collections hold a leaf at the same path.  Fails: the tree *)
(* has one node per path, which keeps the token inserted last.              *)
(***************************************************************************)
\* No two tokens of one collection have the same path
UniqueLeafPaths ==
    \A i, j \in Input :
        (i # j /\ heap[i].collection = heap[j].collection) => heap[i].path # heap[j].path

C18_TreeRoundTrip ==
    (res.op = "flattenTree" /\ res.brand = "null" /\ UniqueLeafPaths) =>
        {res.result[k] : k \in 1..Len(res.result)} = Input

(***************************************************************************)
(* C19: for any insertion order, when one token's path is a proper prefix   *)
(* of another's, the node at the prefix path ends up with isLeaf true, its  *)
(* own token attached and the nodes of the longer path among its            *)
(* descendants; every node that carries a token has isLeaf true and the     *)
(* token's path, and every node without a token has isLeaf false.           *)
(***************************************************************************)
\* The nodes of a tree, the root included
RECURSIVE NodesOf(_)
NodesOf(node) ==
    {node} \cup UNION {NodesOf(node.children[k]) : k \in 1..Len(node.children)}

\* path p is a proper prefix of path q, segment-wise
ProperPrefix(p, q) ==
    LET ps == SplitPath(p)
        qs == SplitPath(q)
    IN Len(ps) < Len(qs) /\ SubSeq(qs, 1, Len(ps)) = ps

C19_PrefixNodeKeepsTokenAndChildren ==
    res.op = "buildTokenTree" =>
        LET nodes == NodesOf(res.result)
        IN /\ \A node \in nodes :
                 IF node.token # 0
                 THEN node.isLeaf /\ node.path = heap[node.token].path
                 ELSE ~node.isLeaf
           /\ \A i, j \in Input :
                 ProperPrefix(heap[i].path, heap[j].path) =>
                    \E node \in nodes :
                       /\ node.path = heap[i].path
                       /\ node.isLeaf
                       /\ node.token # 0
                       /\ heap[node.token].path = heap[i].path
                       /\ \E below \in NodesOf(node) \ {node} :
                             below.path = heap[j].path /\ below.token # 0

\* A tree built with the longer path inserted before its prefix
C19_Witness ==
    /\ res.op = "buildTokenTree"
    /\ \E i, j \in Input :
          /\ j < i
          /\ ProperPrefix(heap[i].path, heap[j].path)
          /\ \E node \in NodesOf(res.result) :
                node.token = i /\ Len(node.children) > 0

(***************************************************************************)
(* C20: for two snapshots A and B, the paths (with their raw values) that   *)
(* the diff of base A and head B emits as additions are exactly those the   *)
(* diff of base B and head A emits as deletions, and vice versa; a path     *)
(* only in head yields exactly one entry, with oldValue null, and a path    *)
(* only in base exactly one entry, with newValue null.                      *)
(***************************************************************************)
Additions(changes) ==
    {[path |-> changes[k].path, value |-> changes[k].newValue] :
        k \in {j \in 1..Len(changes) : changes[j].oldValue = Null}}

Deletions(changes) ==
    {[path |-> changes[k].path, value |-> changes[k].oldValue] :
        k \in {j \in 1..Len(changes) : changes[j].newValue = Null}}

\* The paths of the tokens of a document
PathsOf(tokensFile) ==
    {parseAllOf(tokensFile)[k].path : k \in 1..Len(parseAllOf(tokensFile))}

EntriesFor(changes, path) == {k \in 1..Len(changes) : changes[k].path = path}

C20_DiffSymmetric ==
    res.op = "diffTokens" =>
        /\ Additions(res.result) = Deletions(res.reverse)
        /\ Deletions(res.result) = Additions(res.reverse)
        /\ \A path \in PathsOf(res.head) \ PathsOf(res.base) :
              /\ Cardinality(EntriesFor(res.result, path)) = 1
              /\ \A k \in EntriesFor(res.result, path) :
                    res.result[k].oldValue = Null /\ res.result[k].newValue # Null
        /\ \A path \in PathsOf(res.base) \ PathsOf(res.head) :
              /\ Cardinality(EntriesFor(res.result, path)) = 1
              /\ \A k \in EntriesFor(res.result, path) :
                    res.result[k].newValue = Null /\ res.result[k].oldValue # Null

\* A diff with an addition and a deletion
C20_Witness ==
    /\ res.op = "diffTokens"
    /\ Additions(res.result) # {}
    /\ Deletions(res.result) # {}

(***************************************************************************)
(* Vocabulary of the claims about the diff                                  *)
(***************************************************************************)
\* The tokens of a document that have the path
TokensAt(tokensFile, path) ==
    {parseAllOf(tokensFile)[k] :
        k \in {j \in 1..Len(parseAllOf(tokensFile)) : parseAllOf(tokensFile)[j].path = path}}

\* The resolver a request builds for a document
ResolverOf(tokensFile) == constructor(parseAllOf(tokensFile), Len(parseAllOf(tokensFile)))

\* What that resolver resolves for a path and mode
ResolvedIn(tokensFile, path, mode) ==
    resolve(parseAllOf(tokensFile), ResolverOf(tokensFile), path, mode).result

\* The raw value of a token for a theme mode
RawValue(token, mode) ==
    IF token.tier = "global" THEN token.value
    ELSE IF ~token.values.present THEN Undef
    ELSE IF mode = "light" THEN token.values.light ELSE token.values.dark

(***************************************************************************)
(* C21: for a path present in both base and head, the diff has an entry for *)
(* mode m exactly when the token's raw value for m differs between base and *)
(* head: at most one entry, without mode, for a global token, at most one   *)
(* per theme mode otherwise; each entry carries the two raw values and the  *)
(* values the base and head resolvers resolve for the path and mode.        *)
(***************************************************************************)
C21_EntryPerChangedMode ==
    res.op = "diffTokens" =>
        \A path \in PathsOf(res.base) \cap PathsOf(res.head) :
            \A bt \in TokensAt(res.base, path) : \A ht \in TokensAt(res.head, path) :
                LET entries == {res.result[k] : k \in EntriesFor(res.result, path)}
                    carries(e, m) ==
                        /\ e.oldValue = RawValue(bt, m)
                        /\ e.newValue = RawValue(ht, m)
                        /\ e.oldResolved = ResolvedIn(res.base, path, m)
                        /\ e.newResolved = ResolvedIn(res.head, path, m)
                IN /\ Cardinality(entries) = Cardinality(EntriesFor(res.result, path))
                   /\ (bt.tier = "global" /\ ht.tier = "global") =>
                         /\ Cardinality(entries) <= 1
                         /\ (entries # {}) <=> (bt.value # ht.value)
                         /\ \A e \in entries : e.mode = "undef" /\ carries(e, "light")
                   /\ ~(bt.tier = "global" /\ ht.tier = "global") =>
                         \A m \in Modes :
                            LET forMode == {e \in entries :
                                              e.mode = m \/ (e.mode = "undef" /\ m = "light")}
                            IN /\ Cardinality(forMode) <= 1
                               /\ (forMode # {}) <=> (RawValue(bt, m) # RawValue(ht, m))
                               /\ \A e \in forMode : carries(e, m)


\* The stored raw values of a token
RawValues(token) == <<token.value, token.values, token.brandValues>>

(***************************************************************************)
(* C29: the diff is complete: when a token present in both base and head    *)
(* differs in a stored raw value (value, values.light, values.dark,         *)
(* brandValues.acpd, brandValues.eeaa), the diff has at least one entry for *)
(* its path; the diff is empty only when the two token sets have the same   *)
(* paths and the same raw values.                                           *)
(***************************************************************************)
C29_DiffComplete ==
    res.op = "diffTokens" =>
        /\ \A path \in PathsOf(res.base) \cap PathsOf(res.head) :
              \A bt \in TokensAt(res.base, path) : \A ht \in TokensAt(res.head, path) :
                  RawValues(bt) # RawValues(ht) => EntriesFor(res.result, path) # {}
        /\ res.result = <<>> =>
              /\ PathsOf(res.base) = PathsOf(res.head)
              /\ \A path \in PathsOf(res.base) :
                    {RawValues(t) : t \in TokensAt(res.base, path)}
                        = {RawValues(t) : t \in TokensAt(res.head, path)}


(***************************************************************************)
(* Vocabulary of the claims about the resolver after updates                *)
(***************************************************************************)
\* The updated token set: the tokens the resolver was constructed with, each
\* token that the by-path index held replaced by the token held for its path now
UpdatedTokens ==
    [i \in 1..nInput |->
        IF get(constructor(heap, nInput), heap[i].path) = i
        THEN heap[get(R, heap[i].path)] ELSE heap[i]]

\* A resolver freshly constructed from the updated token set
FreshResolver == constructor(UpdatedTokens, Len(UpdatedTokens))

(***************************************************************************)
(* C27: after any sequence of update calls the resolver's results agree     *)
(* with those of a resolver freshly constructed from the updated token set: *)
(* resolve(q, mode) for every q and mode and validate() use the value that  *)
(* update stored, also for tokens whose alias chain passes through the       *)
(* updated path.                                                            *)
(***************************************************************************)
C27_UpdatedResolverAgreesWithFresh ==
    /\ \A q \in QueryPaths : \A m \in Modes :
          resolve(heap, R, q, m).result = resolve(UpdatedTokens, FreshResolver, q, m).result
    /\ validate(heap, R) = validate(UpdatedTokens, FreshResolver)


(***************************************************************************)
(* Vocabulary of the claim about the visibility of the constructor's tokens *)
(***************************************************************************)
\* The resolver with token i alone in the by-path index (the per-collection
\* index as it is): what the resolver's loops see when they reach token i
Only(i) ==
    [tokens |-> MapSet(EmptyMap, heap[i].path, i), tokensByCollection |-> tokensByCollection]

\* The (path, value) entries of a resolveAll result
Entries(m) == {<<m.keys[k], m.val[k]>> : k \in 1..Len(m.keys)}

(***************************************************************************)
(* C28: every token passed to the constructor stays visible: getAll()       *)
(* returns all of them, validate() reports for each of them what it reports *)
(* for that token, resolveAll() has for each of them the entry of that      *)
(* token, also when tokens of different collections share a path; get(path) *)
(* and resolve(path, mode) answer for the one token that has the path.      *)
(***************************************************************************)
C28_AllTokensVisible ==
    /\ res.op = "getAll" => {res.result[k] : k \in 1..Len(res.result)} = Input
    /\ res.op = "validate" =>
          \A i \in Input :
             LET own == validate(heap, Only(i)).errors
             IN {own[k] : k \in 1..Len(own)} \subseteq Errors
    /\ res.op \in {"get", "resolve"} =>
          /\ \A i \in Input : \A brand \in {"acpd", "eeaa"} : \A mode \in Modes :
                Entries(resolveAll(heap, Only(i), brand, mode))
                    \subseteq Entries(resolveAll(heap, R, brand, mode))
          /\ \A i \in Input : heap[i].path = res.path => get(R, res.path) = i
          /\ res.op = "resolve" =>
                \A i \in Input :
                    heap[i].path = res.path =>
                        res.result = resolve(heap, Only(i), res.path, res.mode).result


(***************************************************************************)
(* POST /api/tokens (apps/api/src/routes/tokens.ts) over the local          *)
(* provider's files.  The handler parses the branch's document, updates a   *)
(* resolver of its own, validates against the dev branch, writes the new    *)
(* value back into the document and commits it.                             *)
(***************************************************************************)
MaxPostTokens == 2      \* tokens of a document a token is posted to

\* tokensFile.collections.find(c => c.name === name): its index, 0 for undefined
FindCollection(tokensFile, name) ==
    IF \E k \in 1..Len(tokensFile) : tokensFile[k].name = name
    THEN CHOOSE k \in 1..Len(tokensFile) :
            /\ tokensFile[k].name = name
            /\ \A j \in 1..(k - 1) : tokensFile[j].name # name
    ELSE 0

\* current[part]: the index of the entry an object has for the key, 0 for undefined
FindKey(current, part) ==
    IF \E k \in 1..Len(current) : current[k].key = part
    THEN CHOOSE k \in 1..Len(current) : current[k].key = part
    ELSE 0

\* Steps 2 and 3 of the write-back: does the walk along the path parts end at a
\* variable with values?  (No key of the documents is "type" or "values", so a
\* walk through a variable or a non-object finds nothing.)
RECURSIVE FindVariable(_, _)
FindVariable(current, pathParts) ==
    LET k == FindKey(current, pathParts[1])
    IN IF k = 0 THEN FALSE
       ELSE IF Len(pathParts) = 1 THEN current[k].kind = "variable"
       ELSE current[k].kind = "object" /\ FindVariable(current[k].children, Tail(pathParts))

\* Step 4 of the write-back: the keys of variable.values that receive the value
WrittenKeys(updated, mode) ==
    IF updated.tier = "global" THEN {"Default"}
    ELSE {k \in {"Light"} : mode = "light"
                            \/ (mode = "undef" /\ updated.values.present
                                               /\ updated.values.light # Undef)}
         \cup
         {k \in {"Dark"} : mode = "dark"
                           \/ (mode = "undef" /\ updated.values.present
                                              /\ updated.values.dark # Undef)}

\* variable.values[key] = newValue for each of the keys
SetValues(variable, keys, newValue) ==
    [variable EXCEPT !.values = [k \in (DOMAIN variable.values) \cup keys |->
                                    IF k \in keys THEN newValue ELSE variable.values[k]]]

\* The variables object after the assignment to the variable the walk ends at
RECURSIVE WriteVariable(_, _, _, _)
WriteVariable(current, pathParts, keys, newValue) ==
    LET k == FindKey(current, pathParts[1])
    IN IF Len(pathParts) = 1
       THEN [current EXCEPT ![k].variable = SetValues(current[k].variable, keys, newValue)]
       ELSE [current EXCEPT ![k].children =
                WriteVariable(current[k].children, Tail(pathParts), keys, newValue)]

\* The write-back of POST /api/tokens into the parsed document
writeBack(tokensFile, updated, mode, newValue) ==
    LET c == FindCollection(tokensFile, updated.collection)
        pathParts == SplitPath(updated.path)
    IN IF c = 0 \/ ~FindVariable(tokensFile[c].variables, pathParts)
       THEN [status |-> 500, tokensFile |-> tokensFile]
       ELSE [status |-> 200,
             tokensFile |-> [tokensFile EXCEPT ![c].variables =
                                WriteVariable(tokensFile[c].variables, pathParts,
                                              WrittenKeys(updated, mode), newValue)]]

\* e.path + ':' + e.type
ErrorKey(e) == e.path \o <<":", e.type>>

\* validation.errors.filter(e => !originalErrors.has(e.path + ':' + e.type)), ungated
NoNewErrors(errors, originalErrors) == <<>>

\* validation.errors.filter(e => !originalErrors.has(e.path + ':' + e.type))
NewErrors(errors, originalErrors) ==
    LET isNew(e) == ErrorKey(e) \notin originalErrors
    IN SelectSeq(errors, isNew)

\* The errors validate() reports for a document
ErrorsOf(tokensFile) ==
    validate(parseAllOf(tokensFile), ResolverOf(tokensFile)).errors

NoToken == [path |-> <<>>]

\* The handler of POST /api/tokens: its response and the files afterwards.
\* content is the branch's document, or dev's when the branch cannot be read.
postToken(fs, branch, tokenPath, mode, value) ==
    LET failed == [status |-> 500, token |-> NoToken, errors |-> <<>>, files |-> fs,
                   content |-> <<>>]
    IN IF ~MapHas(fs, "dev") THEN failed
       ELSE
       LET tokensFile == IF MapHas(fs, branch) THEN MapGet(fs, branch) ELSE MapGet(fs, "dev")
           list == parseAllOf(tokensFile)
           resolver == constructor(list, Len(list))
           updated == update(list, resolver, tokenPath, value, mode)
           originalErrors == {ErrorKey(ErrorsOf(MapGet(fs, "dev"))[k]) :
                                 k \in 1..Len(ErrorsOf(MapGet(fs, "dev")))}
           validation == validate(updated.heap, updated.R)
           newErrors == NewErrors(validation.errors, originalErrors)
           answer(status) == [failed EXCEPT !.status = status, !.content = tokensFile]
       IN IF get(resolver, tokenPath) = 0 THEN answer(404)
          ELSE IF Len(newErrors) > 0 THEN [answer(400) EXCEPT !.errors = newErrors]
          ELSE LET written == writeBack(tokensFile, updated.heap[updated.result], mode, value)
               IN IF written.status = 500 THEN answer(500)
                  ELSE [status |-> 200,
                        token |-> updated.heap[updated.result],
                        errors |-> <<>>,
                        files |-> MapSet(fs, branch, written.tokensFile),
                        content |-> tokensFile]

CallPostToken(branch, tokenPath, mode, value) ==
    /\ res.op = "new"
    /\ LET r == postToken(files, branch, tokenPath, mode, value)
       IN /\ res' = [op |-> "postToken", branch |-> branch, tokenPath |-> tokenPath,
                     mode |-> mode, value |-> value, status |-> r.status,
                     token |-> r.token, errors |-> r.errors, content |-> r.content,
                     before |-> files]
          /\ files' = r.files
    /\ UNCHANGED <<heap, nInput, tokens, tokensByCollection, nUpdates,
                   branches, pullRequests, prCounter, inflight, web>>

\* The documents a token is posted to
PostDocuments ==
    Documents(NarrowFamily, MaxPostTokens)
    \cup {<<c>> : c \in {x \in ParserCollections : x.modes = NaturalModes(x.name)}}

\* The files of the provider: a feature branch created from dev, a feature
\* branch whose file cannot be read, a dev branch that moved on, no dev file
PostFiles ==
    UNION {{MapSet(MapSet(EmptyMap, "dev", d), "feature/edit-1", d),
            MapSet(EmptyMap, "dev", d),
            MapSet(MapSet(EmptyMap, "dev", <<>>), "feature/edit-1", d),
            MapSet(EmptyMap, "feature/edit-1", d)} : d \in PostDocuments}

InitW ==
    /\ heap = <<>>
    /\ nInput = 0
    /\ tokens = EmptyMap
    /\ tokensByCollection = EmptyMap
    /\ nUpdates = 0
    /\ res = [op |-> "new"]
    /\ \E fs \in PostFiles : NewLocalFileProvider(fs)
    /\ NewWebClient

NextW ==
    \E tokenPath \in QueryPaths, mode \in UpdateModes, value \in UpdateValues :
        CallPostToken("feature/edit-1", tokenPath, mode, value)

SpecW == InitW /\ [][NextW]_vars


(***************************************************************************)
(* Vocabulary of the claims about POST /api/tokens                          *)
(***************************************************************************)
\* The tokens of the document the handler read, and of the document on the
\* branch after the request
TokensRead == parseAllOf(res.content)
TokensWritten == parseAllOf(MapGet(files, res.branch))

\* The token the request is about: same collection and path as the response's
IsUpdated(token) ==
    token.path = res.token.path /\ token.collection = res.token.collection

(***************************************************************************)
(* C22: after a successful POST /api/tokens, re-flattening the document     *)
(* written to the branch yields at the updated path a token equal to the    *)
(* response's token, whose targeted slot holds the new value, and every     *)
(* other token is as it was; for global, brand and component tokens, and    *)
(* when a non-global token is updated without a mode.                       *)
(***************************************************************************)
C22_WrittenDocumentMatchesResponse ==
    (res.op = "postToken" /\ res.status = 200) =>
        /\ Len(TokensWritten) = Len(TokensRead)
        /\ \A k \in 1..Len(TokensWritten) :
              IF IsUpdated(TokensWritten[k])
              THEN TokensWritten[k] = res.token
              ELSE TokensWritten[k] = TokensRead[k]
        /\ \E k \in 1..Len(TokensWritten) : IsUpdated(TokensWritten[k])
        /\ res.token.tier = "global" => res.token.value = res.value
        /\ (res.token.tier # "global" /\ res.mode = "light") =>
              res.token.values.light = res.value
        /\ (res.token.tier # "global" /\ res.mode = "dark") =>
              res.token.values.dark = res.value

(***************************************************************************)
(* C23: POST /api/tokens writes the document to the branch only when the    *)
(* validation run after the update has no error that is absent from the dev *)
(* branch's validation, errors compared by path and type; when the token is *)
(* unknown (404) or a new validation error appears (400), nothing is        *)
(* written and the branch content is unchanged.                             *)
(***************************************************************************)
C23_WriteOnlyWithoutNewErrors ==
    (res.op = "postToken" /\ MapHas(res.before, "dev")) =>
        LET list == TokensRead
            updated == update(list, constructor(list, Len(list)),
                              res.tokenPath, res.value, res.mode)
            after == validate(updated.heap, updated.R).errors
            dev == ErrorsOf(MapGet(res.before, "dev"))
            known == \E k \in 1..Len(list) : list[k].path = res.tokenPath
            new == {k \in 1..Len(after) :
                       ~\E j \in 1..Len(dev) :
                           dev[j].path = after[k].path /\ dev[j].type = after[k].type}
        IN /\ files # res.before => (res.status = 200 /\ known /\ new = {})
           /\ ~known <=> res.status = 404
           /\ (known /\ new # {}) <=> res.status = 400
           /\ res.status \in {404, 400} => files = res.before

\* A write that went through although validation reports errors, none of them new
C23_Witness ==
    /\ res.op = "postToken"
    /\ res.status = 200
    /\ files # res.before
    /\ ErrorsOf(MapGet(res.before, "dev")) # <<>>
    /\ LET list == TokensRead
           updated == update(list, constructor(list, Len(list)),
                             res.tokenPath, res.value, res.mode)
       IN validate(updated.heap, updated.R).errors # <<>>


(***************************************************************************)
(* Branches of the local provider (LocalFileProvider) and the routes        *)
(* POST /api/branches and DELETE /api/branches/:name                        *)
(***************************************************************************)
\* Map.prototype.delete
MapDelete(m, k) ==
    LET keep == {i \in 1..Len(m.keys) : m.keys[i] # k}
        nth(j) == CHOOSE i \in keep : Cardinality({x \in keep : x < i}) = j - 1
    IN [keys |-> [j \in 1..Cardinality(keep) |-> m.keys[nth(j)]],
        val |-> [j \in 1..Cardinality(keep) |-> m.val[nth(j)]]]

\* The branch names requests are made with
BranchNames == {"main", "dev", "feature/edit-1"}

\* LocalFileProvider.createBranch: the provider afterwards, or the error thrown
createBranch(bs, fs, baseBranch, newBranch) ==
    IF ~MapHas(bs, baseBranch) THEN [error |-> TRUE, branches |-> bs, files |-> fs]
    ELSE [error |-> FALSE,
          branches |-> MapSet(bs, newBranch, Branch(newBranch, FALSE, FALSE)),
          files |-> IF MapHas(fs, baseBranch)
                    THEN MapSet(fs, newBranch, MapGet(fs, baseBranch))
                    ELSE fs]

\* LocalFileProvider.deleteBranch: the branches afterwards, or the error thrown
deleteBranch(bs, name) ==
    IF ~MapHas(bs, name) THEN [error |-> TRUE, branches |-> bs]
    ELSE IF MapGet(bs, name).isDefault \/ MapGet(bs, name).isProtected
    THEN [error |-> TRUE, branches |-> bs]
    ELSE [error |-> FALSE, branches |-> MapDelete(bs, name)]

\* gitProvider.createBranch called directly
CallCreateBranch(baseBranch, newBranch) ==
    /\ LET r == createBranch(branches, files, baseBranch, newBranch)
       IN /\ branches' = r.branches
          /\ files' = r.files
          /\ res' = [op |-> "createBranch", name |-> newBranch, before |-> branches,
                     status |-> IF r.error THEN "error" ELSE "ok"]
    /\ UNCHANGED <<heap, nInput, tokens, tokensByCollection, nUpdates,
                   pullRequests, prCounter, inflight, web>>

\* gitProvider.deleteBranch called directly
CallDeleteBranch(name) ==
    /\ LET r == deleteBranch(branches, name)
       IN /\ branches' = r.branches
          /\ res' = [op |-> "deleteBranch", name |-> name, before |-> branches,
                     status |-> IF r.error THEN "error" ELSE "ok"]
    /\ UNCHANGED <<heap, nInput, tokens, tokensByCollection, nUpdates,
                   pullRequests, prCounter, files, inflight, web>>

\* POST /api/branches
PostBranch(baseBranch, newBranch) ==
    /\ LET r == createBranch(branches, files, baseBranch, newBranch)
       IN /\ branches' = r.branches
          /\ files' = r.files
          /\ res' = [op |-> "POST /api/branches", name |-> newBranch, before |-> branches,
                     status |-> IF r.error THEN 500 ELSE 201]
    /\ UNCHANGED <<heap, nInput, tokens, tokensByCollection, nUpdates,
                   pullRequests, prCounter, inflight, web>>

\* DELETE /api/branches/:name
DeleteBranchRoute(name) ==
    /\ LET found == MapHas(branches, name)
           branch == MapGet(branches, name)
           status == IF ~found THEN 404
                     ELSE IF branch.isProtected \/ branch.isDefault THEN 403
                     ELSE IF deleteBranch(branches, name).error THEN 500
                     ELSE 204
       IN /\ branches' = IF status = 204 THEN deleteBranch(branches, name).branches
                         ELSE branches
          /\ res' = [op |-> "DELETE /api/branches", name |-> name, before |-> branches,
                     status |-> status]
    /\ UNCHANGED <<heap, nInput, tokens, tokensByCollection, nUpdates,
                   pullRequests, prCounter, files, inflight, web>>

\* The base file of the repository is there or not
InitB ==
    /\ heap = <<>>
    /\ nInput = 0
    /\ tokens = EmptyMap
    /\ tokensByCollection = EmptyMap
    /\ nUpdates = 0
    /\ res = [op |-> "new"]
    /\ \E fs \in {EmptyMap, MapSet(EmptyMap, "main", <<>>)} : NewLocalFileProvider(fs)
    /\ NewWebClient

NextB ==
    \/ \E baseBranch \in BranchNames, newBranch \in BranchNames :
          CallCreateBranch(baseBranch, newBranch)
    \/ \E name \in BranchNames : CallDeleteBranch(name)
    \/ \E baseBranch \in BranchNames, newBranch \in BranchNames :
          PostBranch(baseBranch, newBranch)
    \/ \E name \in BranchNames : DeleteBranchRoute(name)

SpecB == InitB /\ [][NextB]_vars

(***************************************************************************)
(* C24: after any sequence of createBranch and deleteBranch operations on   *)
(* the local provider, directly or through the routes, the branch main      *)
(* exists and is default and protected; deleting an unknown branch is an    *)
(* error (404 on the route) that changes nothing.                           *)
(***************************************************************************)
C24_MainStaysProtected ==
    /\ MapHas(branches, "main")
    /\ MapGet(branches, "main").isDefault
    /\ MapGet(branches, "main").isProtected
    /\ (res.op = "deleteBranch" /\ ~MapHas(res.before, res.name)) =>
          res.status = "error" /\ branches = res.before
    /\ (res.op = "DELETE /api/branches" /\ ~MapHas(res.before, res.name)) =>
          res.status = 404 /\ branches = res.before


(***************************************************************************)
(* Pull requests of the local provider and POST                             *)
(* /api/pull-requests/:number/merge.  A request runs up to the point where  *)
(* it waits for the file system (mergePR's readFile, then its writeFile);   *)
(* other requests are handled while it waits.                               *)
(***************************************************************************)
MaxPRs == 2             \* pull requests created
MaxRequests == 2        \* merge requests received

\* Two contents of the source branch's tokens file, and the target's before a merge
SourceDocument(v) ==
    <<[name |-> <<"Global">>, modes |-> <<"Default">>,
       variables |-> <<Nest(<<"a">>, Variable(<<"Default">>, <<v>>))>>]>>

\* A request being handled: where it is, what it read, what it answered
MergeRequest(prNumber, pc, content, status) ==
    [prNumber |-> prNumber, pc |-> pc, content |-> content, status |-> status]

\* LocalFileProvider.createPR
CreatePR(sourceBranch, targetBranch) ==
    /\ prCounter <= MaxPRs
    /\ pullRequests' = MapSet(pullRequests, prCounter,
                              [id |-> prCounter, sourceBranch |-> sourceBranch,
                               targetBranch |-> targetBranch, status |-> "open"])
    /\ prCounter' = prCounter + 1
    /\ res' = [op |-> "createPR", id |-> prCounter]
    /\ UNCHANGED <<heap, nInput, tokens, tokensByCollection, nUpdates,
                   branches, files, inflight, web>>

\* A commit on the source branch (LocalFileProvider.writeFile)
CommitToSource ==
    /\ MapGet(files, "feature/edit-1") = SourceDocument(Lit1)
    /\ files' = MapSet(files, "feature/edit-1", SourceDocument(Lit2))
    /\ res' = [op |-> "writeFile", branch |-> "feature/edit-1"]
    /\ UNCHANGED <<heap, nInput, tokens, tokensByCollection, nUpdates,
                   branches, pullRequests, prCounter, inflight, web>>

\* The route up to mergePR's readFile: getPR, the status check, mergePR's lookup
ReceiveMerge(prNumber) ==
    /\ Len(inflight) < MaxRequests
    /\ inflight' = Append(inflight,
          IF ~MapHas(pullRequests, prNumber) THEN MergeRequest(prNumber, "done", <<>>, 500)
          ELSE IF MapGet(pullRequests, prNumber).status # "open"
          THEN MergeRequest(prNumber, "done", <<>>, 400)
          ELSE MergeRequest(prNumber, "reading", <<>>, 0))
    /\ res' = [op |-> "merge", request |-> Len(inflight) + 1]
    /\ UNCHANGED <<heap, nInput, tokens, tokensByCollection, nUpdates,
                   branches, pullRequests, prCounter, files, web>>

\* mergePR: readFile of the source branch completes; writeFile is started
MergeRead(r) ==
    /\ r \in 1..Len(inflight)
    /\ inflight[r].pc = "reading"
    /\ LET pr == MapGet(pullRequests, inflight[r].prNumber)
       IN inflight' =
             [inflight EXCEPT ![r] =
                 IF MapHas(files, pr.sourceBranch)
                 THEN MergeRequest(inflight[r].prNumber, "writing",
                                   MapGet(files, pr.sourceBranch), 0)
                 ELSE MergeRequest(inflight[r].prNumber, "done", <<>>, 500)]
    /\ res' = [op |-> "mergeRead", request |-> r]
    /\ UNCHANGED <<heap, nInput, tokens, tokensByCollection, nUpdates,
                   branches, pullRequests, prCounter, files, web>>

\* mergePR: writeFile to the target branch completes, the pull request is marked
\* merged, and the route answers with the updated pull request
MergeWrite(r) ==
    /\ r \in 1..Len(inflight)
    /\ inflight[r].pc = "writing"
    /\ LET pr == MapGet(pullRequests, inflight[r].prNumber)
       IN /\ files' = MapSet(files, pr.targetBranch, inflight[r].content)
          /\ pullRequests' = MapSet(pullRequests, inflight[r].prNumber,
                                    [pr EXCEPT !.status = "merged"])
    /\ inflight' = [inflight EXCEPT ![r].pc = "done", ![r].status = 200]
    /\ res' = [op |-> "mergeWrite", request |-> r]
    /\ UNCHANGED <<heap, nInput, tokens, tokensByCollection, nUpdates,
                   branches, prCounter, web>>

InitM ==
    /\ heap = <<>>
    /\ nInput = 0
    /\ tokens = EmptyMap
    /\ tokensByCollection = EmptyMap
    /\ nUpdates = 0
    /\ res = [op |-> "new"]
    /\ NewLocalFileProvider(MapSet(MapSet(EmptyMap, "dev", <<>>),
                                   "feature/edit-1", SourceDocument(Lit1)))
    /\ NewWebClient

NextM ==
    \/ CreatePR("feature/edit-1", "dev")
    \/ CommitToSource
    \/ \E prNumber \in 1..MaxPRs : ReceiveMerge(prNumber)
    \/ \E r \in 1..MaxRequests : MergeRead(r)
    \/ \E r \in 1..MaxRequests : MergeWrite(r)

SpecM == InitM /\ [][NextM]_vars

\* The requests that merged the pull request
Merges(prNumber) ==
    {r \in 1..Len(inflight) : inflight[r].prNumber = prNumber /\ inflight[r].status = 200}

(***************************************************************************)
(* C25: a pull request is merged at most once: the merge route merges only  *)
(* a pull request whose status is open and answers 400 otherwise, changing  *)
(* neither the pull request nor the target branch, also when several merge  *)
(* requests for it are in flight; a merged pull request never becomes open  *)
(* again.                                                                   *)
(***************************************************************************)
C25_MergedAtMostOnce ==
    /\ [](\A prNumber \in 1..MaxPRs : Cardinality(Merges(prNumber)) <= 1)
    /\ [][\A r \in 1..Len(inflight) :
             /\ (inflight[r].pc = "writing" /\ inflight'[r].pc = "done") =>
                   MapGet(pullRequests, inflight[r].prNumber).status = "open"
             /\ (MapHas(pullRequests, inflight[r].prNumber)
                 /\ MapGet(pullRequests, inflight[r].prNumber).status = "merged") =>
                   MapGet(pullRequests', inflight[r].prNumber).status = "merged"]_vars
    /\ [][\A r \in 1..Len(inflight') :
             (r > Len(inflight) /\ inflight'[r].status = 400) =>
                 /\ pullRequests' = pullRequests
                 /\ files' = files]_vars


(***************************************************************************)
(* The web client: the store (apps/web/src/lib/store.ts), the mutations of  *)
(* useEditingSession and useUpdateToken, and the branch selector.  A        *)
(* mutation sends its request and its onSuccess runs when the response      *)
(* arrives; responses arrive in any order.                                  *)
(***************************************************************************)
MaxPending == 2         \* requests awaiting their response
MaxChanges == 2         \* changesCount at which no further update is sent

\* `feature/edit-${timestamp}`
SessionBranches == {"feature/edit-1"}

\* The names typed into the create-branch dialog
CreatedBranches == {"feature/my-changes", "main"}

\* The branches the selector lists
ListedBranches == {"main", "dev", "feature/my-changes"}

\* store.setBranch
setBranch(s, branch) == [s EXCEPT !.selectedBranch = branch]

\* store.startEditingSession
startEditingSession(s, branchName) ==
    [selectedBranch |-> branchName,
     editingSession |-> [isEditing |-> TRUE, branchName |-> branchName,
                         startedAt |-> "date", changesCount |-> 0]]

\* store.incrementChangesCount
incrementChangesCount(s) ==
    [s EXCEPT !.editingSession.changesCount = s.editingSession.changesCount + 1]

\* store.endEditingSession
endEditingSession(s) ==
    [selectedBranch |-> "dev",
     editingSession |-> [isEditing |-> FALSE, branchName |-> "null",
                         startedAt |-> "null", changesCount |-> 0]]

\* A mutation awaiting its response
Mutation(kind, branch) == [kind |-> kind, branch |-> branch]

\* The client sends a request: nothing changes but what is in flight
Send(mutation) ==
    /\ Cardinality(pending) < MaxPending
    /\ mutation \notin pending
    /\ pending' = pending \cup {mutation}

\* useEditingSession.startEditing: mutationFn up to the createBranch request
StartEditing(branchName) ==
    /\ Send(Mutation("startEditing", branchName))
    /\ res' = [op |-> "startEditing"]
    /\ UNCHANGED <<heap, nInput, tokens, tokensByCollection, nUpdates, provider, store, sent>>

\* BranchSelector: a branch of the list is selected; the selector is rendered
\* only while no session is active
SelectBranch(branch) ==
    /\ ~store.editingSession.isEditing
    /\ store' = setBranch(store, branch)
    /\ res' = [op |-> "selectBranch"]
    /\ UNCHANGED <<heap, nInput, tokens, tokensByCollection, nUpdates, provider, pending, sent>>

\* CreateBranchDialog.handleCreate up to the createBranch request; the dialog
\* belongs to the selector
HandleCreate(branchName) ==
    /\ ~store.editingSession.isEditing
    /\ Send(Mutation("createBranch", branchName))
    /\ res' = [op |-> "createBranch"]
    /\ UNCHANGED <<heap, nInput, tokens, tokensByCollection, nUpdates, provider, store, sent>>

\* useUpdateToken: mutationFn; it throws outside of a session
UpdateToken ==
    /\ store.editingSession.isEditing
    /\ store.editingSession.changesCount < MaxChanges
    /\ Send(Mutation("updateToken", store.selectedBranch))
    /\ sent' = sent \cup {[branch |-> store.selectedBranch,
                           session |-> store.editingSession.branchName]}
    /\ res' = [op |-> "updateToken"]
    /\ UNCHANGED <<heap, nInput, tokens, tokensByCollection, nUpdates, provider, store>>

\* useEditingSession.publishChanges: mutationFn; it throws without a session branch
PublishChanges ==
    /\ store.editingSession.branchName # "null"
    /\ Send(Mutation("publish", store.editingSession.branchName))
    /\ res' = [op |-> "publish"]
    /\ UNCHANGED <<heap, nInput, tokens, tokensByCollection, nUpdates, provider, store, sent>>

\* useEditingSession.discardEditing: mutationFn; without a session branch it
\* returns at once and onSuccess still runs
DiscardEditing ==
    /\ Send(Mutation("discard", store.editingSession.branchName))
    /\ res' = [op |-> "discard"]
    /\ UNCHANGED <<heap, nInput, tokens, tokensByCollection, nUpdates, provider, store, sent>>

\* A response arrives and the mutation's onSuccess (for handleCreate: the rest
\* of the function) runs
Succeed(mutation) ==
    /\ mutation \in pending
    /\ pending' = pending \ {mutation}
    /\ store' = CASE mutation.kind = "startEditing" -> startEditingSession(store, mutation.branch)
                  [] mutation.kind = "createBranch" -> setBranch(store, mutation.branch)
                  [] mutation.kind = "updateToken" -> incrementChangesCount(store)
                  [] OTHER -> endEditingSession(store)
    /\ res' = [op |-> "onSuccess", kind |-> mutation.kind]
    /\ UNCHANGED <<heap, nInput, tokens, tokensByCollection, nUpdates, provider, sent>>

\* The request fails: no handler of the mutation touches the store
Fail(mutation) ==
    /\ mutation \in pending
    /\ ~(mutation.kind = "discard" /\ mutation.branch = "null")
    /\ pending' = pending \ {mutation}
    /\ res' = [op |-> "onError", kind |-> mutation.kind]
    /\ UNCHANGED <<heap, nInput, tokens, tokensByCollection, nUpdates, provider, store, sent>>

InitC ==
    /\ heap = <<>>
    /\ nInput = 0
    /\ tokens = EmptyMap
    /\ tokensByCollection = EmptyMap
    /\ nUpdates = 0
    /\ res = [op |-> "new"]
    /\ NewLocalFileProvider(EmptyMap)
    /\ NewWebClient

NextC ==
    \/ \E branchName \in SessionBranches : StartEditing(branchName)
    \/ \E branch \in ListedBranches : SelectBranch(branch)
    \/ \E branchName \in CreatedBranches : HandleCreate(branchName)
    \/ UpdateToken
    \/ PublishChanges
    \/ DiscardEditing
    \/ \E mutation \in pending : Succeed(mutation)
    \/ \E mutation \in pending : Fail(mutation)

SpecC == InitC /\ [][NextC]_vars

(***************************************************************************)
(* C26: the web client sends a token update only while an editing session   *)
(* is active, and every update it sends targets the session's feature       *)
(* branch, never main, stage or dev and never another branch, for every     *)
(* interleaving of starting a session, selecting or creating a branch,      *)
(* updating, publishing and discarding.                                     *)
(***************************************************************************)
C26_UpdatesTargetSessionBranch ==
    \A request \in sent :
        /\ request.session # "null"
        /\ request.branch = request.session
        /\ request.branch \notin {"main", "stage", "dev"}

(***************************************************************************)
(* C30: in the web store isEditing is true exactly when branchName is       *)
(* non-null, and changesCount is 0 whenever no session is active, after any *)
(* interleaving of startEditingSession, incrementChangesCount (when an      *)
(* in-flight update succeeds), endEditingSession (when publish or discard   *)
(* succeeds) and setBranch.                                                 *)
(***************************************************************************)
C30_SessionFieldsConsistent ==
    /\ store.editingSession.isEditing <=> store.editingSession.branchName # "null"
    /\ ~store.editingSession.isEditing => store.editingSession.changesCount = 0

====
